---- MODULE Spec2Model ----
(***************************************************************************)
(* State-machine model of the ERP / MES / MRP back office:                 *)
(*   - work-order transition endpoints (mes/admin.py),                     *)
(*   - the audit log written by signal receivers (core/signals.py),        *)
(*   - console bulk actions (erp/admin.py, mrp/admin.py),                  *)
(*   - computed fields written by Model.save (mrp/models.py, erp/models.py)*)
(* The store is the relational database; one action is one console request *)
(* (or one ORM call of a command-line caller).                             *)
(***************************************************************************)
EXTENDS Integers, Sequences, FiniteSets, TLC

VARIABLES
    workOrders,      \* mes.WorkOrder rows: id -> [status, actual_start, actual_end]
    productionLogs,  \* mes.ProductionLog rows in insertion order
    logData,         \* core.LogData rows in insertion order
    receivers,       \* model names whose generic post_save/post_delete receivers are still alive
    users,           \* existing login accounts
    employees,       \* existing core.Employee rows
    profiles,        \* core.UserProfile rows: account -> [employee, nfc_uid]
    now,             \* timezone.now()
    request,         \* the operation handled by the last step
    response,        \* its outcome
    trace,           \* the store writes of the last step, in program order
    objects,         \* rows of the generically handled models: <<model, id>> -> [status]
    inventory,       \* mrp.Inventory rows: id -> quantities (in hundredths)
    lines,           \* erp.PurchaseOrderLine / SalesOrderLine rows: <<model, id>> -> amounts
    thread_locals,   \* _thread_locals.request between two steps: None, or the request left there
    handlers         \* the transition requests in flight: worker -> <<>> or <<[op, user, id, work_order]>>

vars == <<workOrders, productionLogs, logData, receivers, handlers, thread_locals, users, employees, profiles,
          now, request, response, trace, objects, inventory, lines>>

None == "None"

\* A null foreign key (primary keys start at 1).
Null == 0

(***************************************************************************)
(* Bounds of the model.                                                    *)
(***************************************************************************)
MaxTime == 1
MaxPL == 2
MaxLog == 4
MaxObj == 2
MaxAuditLog == 2
MaxQty == 1
MaxTotal == 30000

\* Work-order ids a request may name.  The model follows one work order, the
\* first row of the table (pk 1); pk 2 is never inserted, so it stays unknown.
WOIds == {1, 2}
\* The server's workers, each handling one request at a time.
Workers == {1, 2}
\* An absent DateTimeField is <<>>, a set one is <<t>>.
Absent == <<>>
At(t) == <<t>>

(***************************************************************************)
(* mes/models.py                                                           *)
(***************************************************************************)
STATUS_CHOICES == {"pending", "ready", "in_progress", "paused", "completed", "cancelled"}

\* WorkOrder(): status defaults to pending, the actual dates to null.
NewWorkOrder == [status |-> "pending", actual_start |-> Absent, actual_end |-> Absent]

(***************************************************************************)
(* core/signals.py                                                         *)
(***************************************************************************)
\* Mutant of TrackedModels: the order lines are registered as well.
TrackedModels_with_lines ==
    {"Product", "PurchaseOrder", "SalesOrder", "Invoice", "WorkOrder", "ProductionLog",
     "QualityCheck", "Material", "BOM", "Inventory", "StockMovement", "PurchaseRequest",
     "PurchaseOrderLine", "SalesOrderLine"}

\* models_to_track
TrackedModels == {"Product", "PurchaseOrder", "SalesOrder", "Invoice", "WorkOrder",
                  "ProductionLog", "QualityCheck", "Material", "BOM", "Inventory",
                  "StockMovement", "PurchaseRequest"}

\* register_model_signals connects, for every tracked model, the two closures
\* that create_generic_log_signal defines locally.  Signal.connect keeps only a
\* weak reference to them, and nothing else in the program refers to them once
\* create_generic_log_signal has returned: whether they are still connected
\* afterwards depends on the interpreter having reclaimed them, so both
\* outcomes are possible.
register_model_signals == {TrackedModels, {}}

\* The store a request works on; a handler threads it through its calls.
\* `fault` says that the INSERT into the LogData table fails during this
\* request, `raised` is the exception propagating out of the call, if any.
World == [workOrders |-> workOrders, productionLogs |-> productionLogs,
          logData |-> logData, objects |-> objects, trace |-> <<>>,
          fault |-> FALSE, raised |-> None]

\* request.user.profile.employee, when the account has a profile with an employee
ProfileEmployee(u) ==
    IF u \in DOMAIN profiles THEN profiles[u].employee ELSE None

\* get_current_request(): the content of the slot.
get_current_request == thread_locals

\* The longest device_info kept: HTTP_USER_AGENT[:200].
DeviceInfoMax == 200

\* s[:n] of a string of one repeated character, written as its length.
Slice(s, n) == IF s > n THEN n ELSE s

\* request.META of the requests of an account: each account uses one browser,
\* alice's sends a user agent longer than device_info keeps.
META(account) ==
    [REMOTE_ADDR |-> "10.0.0.1",
     HTTP_USER_AGENT |-> IF account = "alice" THEN DeviceInfoMax + 50 ELSE 60]

\* create_log: the entry's user/employee default to the request's account and
\* its linked Employee when a request is being handled (req # None).  It has
\* no exception handler: a failing LogData.objects.create propagates.
\* device_info is Absent or At(the length of the kept string).
create_log(w, action_type, user, employee, model_name, object_id, nfc_uid, req) ==
    LET usr == IF req # None /\ user = None THEN req ELSE user
        emp == IF req # None /\ employee = None THEN ProfileEmployee(req) ELSE employee
        ip_address == IF req # None THEN META(req).REMOTE_ADDR ELSE None
        device_info == IF req # None
                       THEN At(Slice(META(req).HTTP_USER_AGENT, DeviceInfoMax))
                       ELSE Absent
        entry == [user |-> usr, employee |-> emp, action_type |-> action_type,
                  model_name |-> model_name, object_id |-> object_id,
                  ip_address |-> ip_address, device_info |-> device_info,
                  nfc_uid |-> nfc_uid]
    IN IF w.fault
       THEN [w EXCEPT !.raised = "DatabaseError"]
       ELSE [w EXCEPT !.logData = Append(@, entry),
                      !.trace = Append(@, [kind |-> "audit", action |-> action_type,
                                           model |-> model_name, id |-> object_id])]

\* log_model_save: the generic post_save receiver of a tracked model
log_model_save(w, model_name, id, created, req) ==
    create_log(w, IF created THEN "create" ELSE "update", None, None, model_name, id,
               None, req)

\* log_model_delete: the generic post_delete receiver of a tracked model
log_model_delete(w, model_name, id, req) ==
    create_log(w, "delete", None, None, model_name, id, None, req)

\* Signal.send(post_save): calls the receivers still connected for the sender
post_save(w, model_name, id, created, req) ==
    IF model_name \in receivers THEN log_model_save(w, model_name, id, created, req) ELSE w

\* Signal.send(post_delete)
post_delete(w, model_name, id, req) ==
    IF model_name \in receivers THEN log_model_delete(w, model_name, id, req) ELSE w

Written(action, model_name, id) ==
    [kind |-> "write", action |-> action, model |-> model_name, id |-> id]

(***************************************************************************)
(* mes/admin.py: the work-order transition endpoints                       *)
(***************************************************************************)
\* Mutant of WorkOrder_save: the audit receiver runs before the row is written
\* (as a pre_save receiver would).
WorkOrder_save_signal_first(w, id, wo, req) ==
    LET created == id \notin DOMAIN w.workOrders
        w1 == post_save(w, "WorkOrder", id, created, req)
    IN [w1 EXCEPT !.workOrders = (id :> wo) @@ @,
                  !.trace = Append(@, Written(IF created THEN "create" ELSE "update",
                                              "WorkOrder", id))]

\* work_order.save(): writes the row, then sends post_save
WorkOrder_save(w, id, wo, req) ==
    LET created == id \notin DOMAIN w.workOrders
        w1 == [w EXCEPT !.workOrders = (id :> wo) @@ @,
                        !.trace = Append(@, Written(IF created THEN "create" ELSE "update",
                                                    "WorkOrder", id))]
    IN IF w.raised # None THEN w ELSE post_save(w1, "WorkOrder", id, created, req)

\* ProductionLog.objects.create(...): inserts the row, then sends post_save
ProductionLog_create(w, row, req) ==
    LET id == Len(w.productionLogs) + 1
        w1 == [w EXCEPT !.productionLogs = Append(@, row),
                        !.trace = Append(@, Written("create", "ProductionLog", id))]
    IN IF w.raised # None THEN w ELSE post_save(w1, "ProductionLog", id, TRUE, req)

\* Mutant of Operator: the log row is created without its operator.
Operator_omitted(u) == None

\* request.user.profile.employee if hasattr(request.user, 'profile') else None
Operator(u) == IF u \in DOMAIN profiles THEN profiles[u].employee ELSE None

Commit(w) ==
    /\ workOrders' = w.workOrders
    /\ productionLogs' = w.productionLogs
    /\ logData' = w.logData
    /\ objects' = w.objects
    /\ trace' = w.trace

\* The status a request finds in the store (None for an unknown id).
StatusOf(id) == IF id \in DOMAIN workOrders THEN workOrders[id].status ELSE None

\* Room for the rows one transition writes (one ProductionLog, two LogData).
RoomForTransition == Len(productionLogs) < MaxPL /\ Len(logData) + 2 <= MaxLog

\* The store of a request during which the INSERT into LogData fails.
LogFailure == [World EXCEPT !.fault = TRUE]

\* The common shape of the four endpoints: get the row, set fields, save, log.
\* The endpoints run in autocommit mode and handle no exception: what was
\* written before a call raised stays written, what comes after is skipped.
TransitionIn(w, op, u, id, wo, action_type) ==
    /\ u \in users
    /\ RoomForTransition
    /\ request' = [op |-> op, user |-> u, model |-> "WorkOrder", id |-> id,
                   before |-> StatusOf(id),
                   input |-> IF w.fault THEN "LogData unavailable" ELSE None]
    /\ IF id \notin DOMAIN workOrders
       THEN \* WorkOrder.objects.get raises WorkOrder.DoesNotExist
            /\ response' = "DoesNotExist"
            /\ trace' = <<>>
            /\ UNCHANGED <<workOrders, productionLogs, logData, objects>>
       ELSE LET served == ProductionLog_create(
                              WorkOrder_save(w, id, wo, u),
                              [work_order |-> id, operator |-> Operator(u),
                               action_type |-> action_type], u)
            IN /\ Commit(served)
               /\ response' = IF served.raised # None THEN served.raised ELSE "redirect"
    /\ UNCHANGED <<receivers, handlers, thread_locals, users, employees, profiles, now, inventory, lines>>

Transition(op, u, id, wo, action_type) == TransitionIn(World, op, u, id, wo, action_type)

\* The row each endpoint saves.
Started(id) ==
    IF id \in DOMAIN workOrders
    THEN [workOrders[id] EXCEPT !.status = "in_progress", !.actual_start = At(now)]
    ELSE NewWorkOrder

Stopped(id) ==
    IF id \in DOMAIN workOrders
    THEN [workOrders[id] EXCEPT !.status = "completed", !.actual_end = At(now)]
    ELSE NewWorkOrder

Paused(id) ==
    IF id \in DOMAIN workOrders
    THEN [workOrders[id] EXCEPT !.status = "paused"]
    ELSE NewWorkOrder

Resumed(id) ==
    IF id \in DOMAIN workOrders
    THEN [workOrders[id] EXCEPT !.status = "in_progress"]
    ELSE NewWorkOrder

\* Mutant of pause_work_order: the log row of a pause says 'stop'.
pause_work_order_logged_as_stop(u, id) == Transition("pause", u, id, Paused(id), "stop")

start_work_order(u, id) == Transition("start", u, id, Started(id), "start")

stop_work_order(u, id) == Transition("stop", u, id, Stopped(id), "stop")

pause_work_order(u, id) == Transition("pause", u, id, Paused(id), "pause")

resume_work_order(u, id) == Transition("resume", u, id, Resumed(id), "resume")

\* WorkOrderAdmin add/change form: the status field is editable.  The add
\* form inserts the first row; the change form saves an existing one.
WorkOrderAdmin_save(u, id, status) ==
    /\ u \in users
    /\ Len(logData) < MaxLog
    /\ id \in DOMAIN workOrders \/ (workOrders = <<>> /\ id = 1)
    /\ request' = [op |-> "save", user |-> u, model |-> "WorkOrder", id |-> id,
                   before |-> StatusOf(id), input |-> status]
    /\ Commit(WorkOrder_save(World, id,
                  IF id \in DOMAIN workOrders
                  THEN [workOrders[id] EXCEPT !.status = status]
                  ELSE [NewWorkOrder EXCEPT !.status = status], u))
    /\ response' = "redirect"
    /\ UNCHANGED <<receivers, handlers, thread_locals, users, employees, profiles, now, inventory, lines>>

NoRequest ==
    [op |-> "none", user |-> None, model |-> None, id |-> 0, before |-> None, input |-> None]

\* The clock advances between requests; no request is being handled.
Tick ==
    /\ now < MaxTime
    /\ now' = now + 1
    /\ request' = NoRequest
    /\ response' = None
    /\ trace' = <<>>
    /\ UNCHANGED <<workOrders, productionLogs, logData, receivers, handlers, thread_locals, users, employees,
                   profiles, objects, inventory, lines>>

\* The store after migration and application start: empty tables, the given
\* login accounts and their profiles, the receivers left by registration.
InitStore(accounts, links) ==
    /\ workOrders = <<>>
    /\ productionLogs = <<>>
    /\ logData = <<>>
    /\ receivers \in register_model_signals
    /\ users = accounts
    /\ employees = {"emp1"}
    /\ profiles = links
    /\ now = 0
    /\ request = NoRequest
    /\ response = None
    /\ trace = <<>>
    /\ objects = <<>>
    /\ inventory = <<>>
    /\ lines = <<>>
    /\ thread_locals = None
    /\ handlers = [worker \in Workers |-> <<>>]

\* alice has a profile linked to an Employee, bob a profile without one,
\* carol no profile.
InitWO ==
    InitStore({"alice", "bob", "carol"},
              ("alice" :> [employee |-> "emp1", nfc_uid |-> "04A1"])
              @@ ("bob" :> [employee |-> None, nfc_uid |-> None]))

NextWO ==
    \/ \E u \in users, id \in WOIds : start_work_order(u, id)
    \/ \E u \in users, id \in WOIds : stop_work_order(u, id)
    \/ \E u \in users, id \in WOIds : pause_work_order(u, id)
    \/ \E u \in users, id \in WOIds : resume_work_order(u, id)
    \/ \E u \in users, id \in WOIds, s \in STATUS_CHOICES : WorkOrderAdmin_save(u, id, s)
    \/ Tick

SpecWO == InitWO /\ [][NextWO]_vars

(***************************************************************************)
(* The generically handled models: console add/change/delete views and ORM *)
(* calls made outside a request (management commands)                      *)
(***************************************************************************)
\* Models without receivers of their own, next to the tracked ones.
UntrackedModels == {"PurchaseOrderLine", "SalesOrderLine"}
Models == TrackedModels \cup UntrackedModels

\* The model follows the first row of each table.
ObjIds == {1}

\* Field defaults of a new row (erp/models.py, mrp/models.py).
DefaultRow(m) ==
    CASE m = "Product" -> [active |-> TRUE]
      [] m \in {"PurchaseOrder", "SalesOrder", "PurchaseRequest"} -> [status |-> "draft"]
      [] OTHER -> [status |-> None]

\* Model.save(): INSERT or UPDATE of the row, then post_save
Model_save(w, m, id, row, req) ==
    LET created == <<m, id>> \notin DOMAIN w.objects
        w1 == [w EXCEPT !.objects = (<<m, id>> :> row) @@ @,
                        !.trace = Append(@, Written(IF created THEN "create" ELSE "update",
                                                    m, id))]
    IN IF w.raised # None THEN w ELSE post_save(w1, m, id, created, req)

\* Model.delete(): DELETE of the row, then post_delete, both inside the
\* Collector's transaction: a receiver that raises undoes the DELETE.
Model_delete(w, m, id, req) ==
    LET keep == DOMAIN w.objects \ {<<m, id>>}
        w1 == [w EXCEPT !.objects = [k \in keep |-> w.objects[k]],
                        !.trace = Append(@, Written("delete", m, id))]
        w2 == post_delete(w1, m, id, req)
    IN IF w.raised # None THEN w
       ELSE IF w2.raised # None THEN [w EXCEPT !.raised = w2.raised]
       ELSE w2

\* The row a request finds: "missing" or "present".
Presence(m, id) == IF <<m, id>> \in DOMAIN objects THEN "present" ELSE "missing"

\* The console's add/change/delete views run in one transaction: an exception
\* undoes what the view wrote.  Code outside a request (u = None) runs in
\* autocommit mode.
Outcome(w, done, u) ==
    IF done.raised # None /\ u # None THEN [w EXCEPT !.raised = done.raised] ELSE done

\* A save of a row of model m, by the console on behalf of account u or, with
\* u = None, by code running outside any request.
save_instance_in(w, u, m, id) ==
    LET done == Outcome(w, Model_save(w, m, id,
                                      IF <<m, id>> \in DOMAIN objects
                                      THEN objects[<<m, id>>] ELSE DefaultRow(m), u), u)
    IN /\ u \in users \cup {None}
       /\ Len(logData) < MaxAuditLog
       /\ <<m, id>> \in DOMAIN objects \/ Cardinality(DOMAIN objects) < MaxObj
       /\ request' = [op |-> "save", user |-> u, model |-> m, id |-> id,
                      before |-> Presence(m, id),
                      input |-> IF w.fault THEN "LogData unavailable" ELSE None]
       /\ Commit(done)
       /\ response' = IF done.raised # None THEN done.raised ELSE "saved"
       /\ UNCHANGED <<receivers, handlers, thread_locals, users, employees, profiles, now, inventory, lines>>

save_instance(u, m, id) == save_instance_in(World, u, m, id)

\* A delete of a row of model m.
delete_instance_in(w, u, m, id) ==
    LET done == Outcome(w, Model_delete(w, m, id, u), u)
    IN /\ u \in users \cup {None}
       /\ Len(logData) < MaxAuditLog
       /\ <<m, id>> \in DOMAIN objects
       /\ request' = [op |-> "delete", user |-> u, model |-> m, id |-> id,
                      before |-> Presence(m, id),
                      input |-> IF w.fault THEN "LogData unavailable" ELSE None]
       /\ Commit(done)
       /\ response' = IF done.raised # None THEN done.raised ELSE "deleted"
       /\ UNCHANGED <<receivers, handlers, thread_locals, users, employees, profiles, now, inventory, lines>>

delete_instance(u, m, id) == delete_instance_in(World, u, m, id)

(***************************************************************************)
(* core/admin.py, core/models.py: what the console can do to LogData rows  *)
(***************************************************************************)
\* LogDataAdmin overrides has_add_permission and has_change_permission only;
\* has_delete_permission is ModelAdmin's, so the delete view and the
\* delete_selected action are open to an account with the delete permission.
has_add_permission == FALSE
has_change_permission == FALSE
has_delete_permission == TRUE

RemoveAt(seq, i) == SubSeq(seq, 1, i - 1) \o SubSeq(seq, i + 1, Len(seq))

LogDataAdmin_delete(u, i) ==
    /\ u \in users
    /\ has_delete_permission
    /\ i \in 1..Len(logData)
    /\ request' = [op |-> "delete", user |-> u, model |-> "LogData", id |-> i,
                   before |-> "present", input |-> None]
    /\ logData' = RemoveAt(logData, i)
    /\ trace' = <<Written("delete", "LogData", i)>>
    /\ response' = "deleted"
    /\ UNCHANGED <<workOrders, productionLogs, receivers, handlers, thread_locals, users, employees, profiles,
                   now, objects, inventory, lines>>

\* on_delete=SET_NULL of LogData.user / LogData.employee
SET_NULL(rows, field, target) ==
    [i \in 1..Len(rows) |->
        IF rows[i][field] = target THEN [rows[i] EXCEPT ![field] = None] ELSE rows[i]]

\* UserAdmin delete view: the account goes, its profile with it (CASCADE),
\* and every LogData row naming it has its user set to null.
UserAdmin_delete(u, target) ==
    /\ u \in users
    /\ target \in users
    /\ request' = [op |-> "delete", user |-> u, model |-> "User", id |-> 0,
                   before |-> "present", input |-> None]
    /\ users' = users \ {target}
    /\ profiles' = [a \in DOMAIN profiles \ {target} |-> profiles[a]]
    /\ logData' = SET_NULL(logData, "user", target)
    /\ trace' = <<Written("delete", "User", 0)>>
    /\ response' = "deleted"
    /\ UNCHANGED <<workOrders, productionLogs, receivers, handlers, thread_locals, employees, now, objects,
                   inventory, lines>>

\* EmployeeAdmin delete view: every reference to the Employee is set to null
\* (UserProfile.employee, LogData.employee, ProductionLog.operator).
EmployeeAdmin_delete(u, e) ==
    /\ u \in users
    /\ e \in employees
    /\ request' = [op |-> "delete", user |-> u, model |-> "Employee", id |-> 0,
                   before |-> "present", input |-> None]
    /\ employees' = employees \ {e}
    /\ profiles' = [a \in DOMAIN profiles |->
                       IF profiles[a].employee = e
                       THEN [profiles[a] EXCEPT !.employee = None] ELSE profiles[a]]
    /\ logData' = SET_NULL(logData, "employee", e)
    /\ productionLogs' = SET_NULL(productionLogs, "operator", e)
    /\ trace' = <<Written("delete", "Employee", 0)>>
    /\ response' = "deleted"
    /\ UNCHANGED <<workOrders, receivers, handlers, thread_locals, users, now, objects, inventory, lines>>

InitAudit ==
    InitStore({"alice", "carol"}, ("alice" :> [employee |-> "emp1", nfc_uid |-> "04A1"]))

NextAudit ==
    \/ \E u \in users \cup {None}, m \in Models, id \in ObjIds : save_instance(u, m, id)
    \/ \E u \in users \cup {None}, m \in Models, id \in ObjIds : delete_instance(u, m, id)

SpecAudit == InitAudit /\ [][NextAudit]_vars

\* The console working on the audit log itself and on the rows it refers to;
\* the entries come from saves and deletes of Product rows.
NextLogAdmin ==
    \/ \E u \in users \cup {None}, id \in ObjIds : save_instance(u, "Product", id)
    \/ \E u \in users \cup {None}, id \in ObjIds : delete_instance(u, "Product", id)
    \/ \E u \in users, i \in 1..MaxAuditLog : LogDataAdmin_delete(u, i)
    \/ \E u \in users, target \in users : UserAdmin_delete(u, target)
    \/ \E u \in users, e \in employees : EmployeeAdmin_delete(u, e)

SpecLogAdmin == InitAudit /\ [][NextLogAdmin]_vars

(***************************************************************************)
(* erp/admin.py, mrp/admin.py: bulk actions of the change lists            *)
(***************************************************************************)
BulkModels == {"Product", "PurchaseOrder", "SalesOrder", "PurchaseRequest"}

\* Primary keys of the rows a change list shows, in ascending order.
BulkIdSeq == <<1, 2>>
BulkIds == {BulkIdSeq[i] : i \in 1..Len(BulkIdSeq)}

\* Values the add/change forms are submitted with.
FormRows(m) ==
    CASE m = "Product" -> {[active |-> TRUE], [active |-> FALSE]}
      [] m = "PurchaseOrder" -> {[status |-> st, total_amount |-> amount] :
                                    st \in {"draft", "received"}, amount \in {0, 100}}
      [] m = "SalesOrder" -> {[status |-> "draft"], [status |-> "shipped"]}
      [] m = "PurchaseRequest" -> {[status |-> "draft"], [status |-> "pending"]}
      [] OTHER -> {DefaultRow(m)}

\* ModelAdmin add/change view: form.save() -> Model.save()
ModelAdmin_save(u, m, id, row) ==
    /\ u \in users
    /\ row \in FormRows(m)
    /\ Len(logData) < MaxAuditLog
    /\ <<m, id>> \in DOMAIN objects \/ Cardinality(DOMAIN objects) < MaxObj
    /\ request' = [op |-> "save", user |-> u, model |-> m, id |-> id,
                   before |-> Presence(m, id), input |-> row]
    /\ Commit(Model_save(World, m, id, row, u))
    /\ response' = "saved"
    /\ UNCHANGED <<receivers, handlers, thread_locals, users, employees, profiles, now, inventory, lines>>

\* QuerySet.update(**kwargs): one UPDATE statement on the matching rows of the
\* queryset; Model.save() is not called and no signal is sent.
QuerySet_update(w, m, matched, row) ==
    LET hit == SelectSeq(BulkIdSeq, LAMBDA id : id \in matched)
    IN [w EXCEPT !.objects = [k \in DOMAIN w.objects |->
                                 IF k[1] = m /\ k[2] \in matched
                                 THEN [f \in DOMAIN w.objects[k] |->
                                          IF f \in DOMAIN row THEN row[f]
                                          ELSE w.objects[k][f]]
                                 ELSE w.objects[k]],
                 !.trace = @ \o [i \in 1..Len(hit) |-> Written("update", m, hit[i])]]

\* Mutant of Filter: the status filter is left out.
Filter_all(m, queryset, field, from) == queryset

\* The selected rows of model m whose field has the value `from`.
Filter(m, queryset, field, from) ==
    {id \in queryset : objects[<<m, id>>][field] = from}

\* A bulk action: `queryset` is the selection made in the change list.
BulkAction(op, u, m, queryset, matched, row) ==
    /\ u \in users
    /\ queryset # {}
    /\ \A id \in queryset : <<m, id>> \in DOMAIN objects
    /\ request' = [op |-> op, user |-> u, model |-> m, id |-> 0, before |-> None,
                   input |-> queryset]
    /\ Commit(QuerySet_update(World, m, matched, row))
    /\ response' = "message"
    /\ UNCHANGED <<receivers, handlers, thread_locals, users, employees, profiles, now, inventory, lines>>

Selected(m, queryset) == {id \in queryset : <<m, id>> \in DOMAIN objects}

\* queryset.update(active=True)
activate_products(u, queryset) ==
    BulkAction("activate_products", u, "Product", queryset,
               Selected("Product", queryset), [active |-> TRUE])

\* queryset.update(active=False)
deactivate_products(u, queryset) ==
    BulkAction("deactivate_products", u, "Product", queryset,
               Selected("Product", queryset), [active |-> FALSE])

\* queryset.filter(status='draft').update(status='sent')
mark_as_sent(u, queryset) ==
    BulkAction("mark_as_sent", u, "PurchaseOrder", queryset,
               Filter("PurchaseOrder", Selected("PurchaseOrder", queryset), "status", "draft"),
               [status |-> "sent"])

\* queryset.filter(status='sent').update(status='confirmed')
mark_as_confirmed(u, queryset) ==
    BulkAction("mark_as_confirmed", u, "PurchaseOrder", queryset,
               Filter("PurchaseOrder", Selected("PurchaseOrder", queryset), "status", "sent"),
               [status |-> "confirmed"])

\* queryset.filter(status='draft').update(status='confirmed')
confirm_orders(u, queryset) ==
    BulkAction("confirm_orders", u, "SalesOrder", queryset,
               Filter("SalesOrder", Selected("SalesOrder", queryset), "status", "draft"),
               [status |-> "confirmed"])

\* queryset.filter(status='pending').update(status='approved')
approve_requests(u, queryset) ==
    BulkAction("approve_requests", u, "PurchaseRequest", queryset,
               Filter("PurchaseRequest", Selected("PurchaseRequest", queryset),
                      "status", "pending"),
               [status |-> "approved"])

BulkActions == {"activate_products", "deactivate_products", "mark_as_sent",
                "mark_as_confirmed", "confirm_orders", "approve_requests"}

NextBulk ==
    \/ \E u \in users, m \in BulkModels, id \in BulkIds :
          \E row \in FormRows(m) : ModelAdmin_save(u, m, id, row)
    \/ \E u \in users, q \in SUBSET BulkIds : activate_products(u, q)
    \/ \E u \in users, q \in SUBSET BulkIds : deactivate_products(u, q)
    \/ \E u \in users, q \in SUBSET BulkIds : mark_as_sent(u, q)
    \/ \E u \in users, q \in SUBSET BulkIds : mark_as_confirmed(u, q)
    \/ \E u \in users, q \in SUBSET BulkIds : confirm_orders(u, q)
    \/ \E u \in users, q \in SUBSET BulkIds : approve_requests(u, q)

InitBulk ==
    InitStore({"alice"}, ("alice" :> [employee |-> "emp1", nfc_uid |-> "04A1"]))

SpecBulk == InitBulk /\ [][NextBulk]_vars

(***************************************************************************)
(* DecimalField(max_digits, decimal_places=2): amounts and quantities are  *)
(* held in hundredths; the product of two of them is in ten-thousandths.   *)
(***************************************************************************)
\* Ties are rounded to even by the ORM's number formatting and away from zero
\* by a database that rounds a numeric(…,2) column itself.
RoundingModes == {"ROUND_HALF_EVEN", "ROUND_HALF_UP"}

\* Quantisation of a value in ten-thousandths to two decimal places.
Quantize(x, mode) ==
    LET floor == x \div 100
        rest == x % 100
    IN CASE rest < 50 -> floor
         [] rest > 50 -> floor + 1
         [] OTHER -> IF mode = "ROUND_HALF_EVEN"
                     THEN (IF floor % 2 = 0 THEN floor ELSE floor + 1)
                     ELSE (IF x >= 0 THEN floor + 1 ELSE floor)

Abs(x) == IF x < 0 THEN -x ELSE x

\* A value of more than max_digits digits is refused when the row is written.
Fits(v, limit) == Abs(v) <= limit

(***************************************************************************)
(* mrp/models.py: Inventory                                                *)
(***************************************************************************)
InvIds == {1, 2}

\* MaxQty stands for the largest quantity of max_digits=15 digits.
Quantities == (-MaxQty)..MaxQty

\* Values of quantity_available an instance may carry into save().
EnteredAvailable == {0, 1}

\* Mutant of quantity_available: the entered value is kept.
quantity_available_entered(on_hand, reserved, entered) == entered

\* self.quantity_available = self.quantity_on_hand - self.quantity_reserved
quantity_available(on_hand, reserved, entered) == on_hand - reserved

\* Inventory.save(): recompute quantity_available, write the row, post_save.
\* `entered` is the quantity_available the instance carried before the save,
\* `product` and `material` are the row's two nullable foreign keys.
Inventory_save_item(u, id, product, material, on_hand, reserved, entered) ==
    LET available == quantity_available(on_hand, reserved, entered)
        created == id \notin DOMAIN inventory
        row == [product |-> product, material |-> material,
                quantity_on_hand |-> on_hand, quantity_reserved |-> reserved,
                quantity_available |-> available]
        w1 == [World EXCEPT !.trace = <<Written(IF created THEN "create" ELSE "update",
                                                "Inventory", id)>>]
    IN /\ u \in users
       /\ request' = [op |-> "save", user |-> u, model |-> "Inventory", id |-> id,
                      before |-> IF created THEN "missing" ELSE "present",
                      input |-> <<on_hand, reserved, entered>>]
       /\ IF Fits(available, MaxQty)
          THEN /\ inventory' = (id :> row) @@ inventory
               /\ Commit(post_save(w1, "Inventory", id, created, u))
               /\ response' = "saved"
          ELSE \* decimal.InvalidOperation / numeric field overflow
               /\ response' = "InvalidOperation"
               /\ trace' = <<>>
               /\ UNCHANGED <<inventory, workOrders, productionLogs, logData, objects>>
       /\ UNCHANGED <<receivers, handlers, thread_locals, users, employees, profiles, now, lines>>

\* A save of the stock row of a product (the first row of the Product table).
Inventory_save(u, id, on_hand, reserved, entered) ==
    /\ Len(logData) < MaxAuditLog
    /\ Inventory_save_item(u, id, 1, Null, on_hand, reserved, entered)

NextInv ==
    \E u \in users, id \in InvIds :
        \E on_hand \in Quantities, reserved \in Quantities, entered \in EnteredAvailable :
            Inventory_save(u, id, on_hand, reserved, entered)

SpecInv == InitBulk /\ [][NextInv]_vars

(***************************************************************************)
(* erp/models.py: PurchaseOrderLine, SalesOrderLine                        *)
(***************************************************************************)
LineIds == {1}

\* Entered quantities and unit prices, in hundredths.
LineQuantities == {0, 5, 15, 1000, 2000}
LinePrices == {-10, 10, 2500}

\* Mutant of total_price: the quantity is left out.
total_price_unit(quantity, unit_price) == unit_price * 100

\* self.total_price = self.quantity * self.unit_price   (ten-thousandths)
total_price(quantity, unit_price) == quantity * unit_price

\* The header model of a line model.
Header(m) == IF m = "PurchaseOrderLine" THEN "PurchaseOrder" ELSE "SalesOrder"

\* Mutant of Line_save: the save of a line also writes the line's total into
\* its header.
Line_save_recomputing(u, m, id, quantity, unit_price, mode) ==
    LET stored == Quantize(total_price(quantity, unit_price), mode)
        created == <<m, id>> \notin DOMAIN lines
        row == [quantity |-> quantity, unit_price |-> unit_price, total_price |-> stored]
        h == <<Header(m), id>>
        w1 == [World EXCEPT !.trace = <<Written(IF created THEN "create" ELSE "update",
                                                m, id)>>,
                            !.objects = IF h \in DOMAIN objects
                                        THEN [objects EXCEPT ![h].total_amount = stored]
                                        ELSE objects]
    IN /\ u \in users \cup {None}
       /\ request' = [op |-> "save", user |-> u, model |-> m, id |-> id,
                      before |-> IF created THEN "missing" ELSE "present",
                      input |-> <<quantity, unit_price>>]
       /\ IF Fits(stored, MaxTotal)
          THEN /\ lines' = (<<m, id>> :> row) @@ lines
               /\ Commit(post_save(w1, m, id, created, u))
               /\ response' = "saved"
          ELSE /\ response' = "InvalidOperation"
               /\ trace' = <<>>
               /\ UNCHANGED <<lines, workOrders, productionLogs, logData, objects>>
       /\ UNCHANGED <<receivers, handlers, thread_locals, users, employees, profiles, now, inventory>>

\* save() of an order line: recompute total_price, write the row (total_price
\* is a two-decimal column), post_save.  MaxTotal stands for the largest
\* amount of max_digits=15 digits.
Line_save(u, m, id, quantity, unit_price, mode) ==
    LET stored == Quantize(total_price(quantity, unit_price), mode)
        created == <<m, id>> \notin DOMAIN lines
        row == [quantity |-> quantity, unit_price |-> unit_price, total_price |-> stored]
        w1 == [World EXCEPT !.trace = <<Written(IF created THEN "create" ELSE "update",
                                                m, id)>>]
    IN /\ u \in users \cup {None}
       /\ request' = [op |-> "save", user |-> u, model |-> m, id |-> id,
                      before |-> IF created THEN "missing" ELSE "present",
                      input |-> <<quantity, unit_price>>]
       /\ IF Fits(stored, MaxTotal)
          THEN /\ lines' = (<<m, id>> :> row) @@ lines
               /\ Commit(post_save(w1, m, id, created, u))
               /\ response' = "saved"
          ELSE /\ response' = "InvalidOperation"
               /\ trace' = <<>>
               /\ UNCHANGED <<lines, workOrders, productionLogs, logData, objects>>
       /\ UNCHANGED <<receivers, handlers, thread_locals, users, employees, profiles, now, inventory>>

PurchaseOrderLine_save(u, id, quantity, unit_price, mode) ==
    Line_save(u, "PurchaseOrderLine", id, quantity, unit_price, mode)

SalesOrderLine_save(u, id, quantity, unit_price, mode) ==
    Line_save(u, "SalesOrderLine", id, quantity, unit_price, mode)

NextLine ==
    \/ \E u \in users \cup {None}, id \in LineIds, mode \in RoundingModes :
          \E q \in LineQuantities, p \in LinePrices :
              PurchaseOrderLine_save(u, id, q, p, mode)
    \/ \E u \in users \cup {None}, id \in LineIds, mode \in RoundingModes :
          \E q \in LineQuantities, p \in LinePrices :
              SalesOrderLine_save(u, id, q, p, mode)

SpecLine == InitBulk /\ [][NextLine]_vars

(***************************************************************************)
(* erp/models.py: the on_delete rules of the order tables, as applied by    *)
(* Model.delete() (django.db.models.deletion.Collector)                    *)
(***************************************************************************)
\* <<referring model, field, referred model, on_delete>>
Relations ==
    {<<"PurchaseOrder", "supplier", "Supplier", "PROTECT">>,
     <<"PurchaseOrderLine", "purchase_order", "PurchaseOrder", "CASCADE">>,
     <<"PurchaseOrderLine", "product", "Product", "PROTECT">>,
     <<"SalesOrder", "customer", "Customer", "PROTECT">>,
     <<"SalesOrderLine", "sales_order", "SalesOrder", "CASCADE">>,
     <<"SalesOrderLine", "product", "Product", "PROTECT">>,
     <<"Invoice", "sales_order", "SalesOrder", "SET_NULL">>,
     <<"Payment", "invoice", "Invoice", "PROTECT">>}

RelatedModels == {r[1] : r \in Relations} \cup {r[3] : r \in Relations}

\* The foreign keys of a model, and the model each one refers to.
RefFields(m) == {r[2] : r \in {x \in Relations : x[1] = m}}
RefTarget(m, f) == (CHOOSE r \in Relations : r[1] = m /\ r[2] = f)[3]
Nullable(m, f) == (CHOOSE r \in Relations : r[1] = m /\ r[2] = f)[4] = "SET_NULL"

\* The rows an add form can be submitted with: every foreign key names an
\* existing row, or is left empty when the column is nullable.
NewRows(m) ==
    {row \in [RefFields(m) -> ObjIds \cup {Null}] :
        \A f \in RefFields(m) :
            IF row[f] = Null THEN Nullable(m, f)
            ELSE <<RefTarget(m, f), row[f]>> \in DOMAIN objects}

\* Collector.related_objects: the rows referring through `rel` to a row of `targets`
related_objects(objs, rel, targets) ==
    {k \in DOMAIN objs : k[1] = rel[1] /\ <<rel[3], objs[k][rel[2]]>> \in targets}

RelatedBy(objs, rule, targets) ==
    UNION {related_objects(objs, rel, targets) : rel \in {r \in Relations : r[4] = rule}}

\* Collector.collect: the rows that go with the deleted one through CASCADE
RECURSIVE collect(_, _)
collect(objs, collected) ==
    LET more == RelatedBy(objs, "CASCADE", collected) \ collected
    IN IF more = {} THEN collected ELSE collect(objs, collected \cup more)

\* Mutant of protected_objects: PROTECT behaves like DO_NOTHING.
protected_objects_ignored(objs, collected) == {}

\* The rows that refer to a collected row through a PROTECT foreign key;
\* collect raises ProtectedError when there is one.
protected_objects(objs, collected) == RelatedBy(objs, "PROTECT", collected)

\* on_delete=SET_NULL: one UPDATE of the referring rows, no signal
set_null(objs, collected) ==
    [k \in DOMAIN objs |->
        [f \in DOMAIN objs[k] |->
            IF /\ f \in RefFields(k[1])
               /\ Nullable(k[1], f)
               /\ <<RefTarget(k[1], f), objs[k][f]>> \in collected
            THEN Null ELSE objs[k][f]]]

\* Collector.delete for the rows in `keys`: DELETE, then post_delete, one by one
RECURSIVE delete_batch(_, _, _)
delete_batch(w, keys, req) ==
    IF keys = {} THEN w
    ELSE LET k == CHOOSE x \in keys : TRUE
         IN delete_batch(Model_delete(w, k[1], k[2], req), keys \ {k}, req)

\* Collector.delete: field updates, the dependent rows, then the row itself
Collector_delete(w, m, id, req) ==
    LET collected == collect(w.objects, {<<m, id>>})
        w1 == [w EXCEPT !.objects = set_null(@, collected)]
        w2 == delete_batch(w1, collected \ {<<m, id>>}, req)
        w3 == Model_delete(w2, m, id, req)
    IN IF w3.raised # None THEN [w EXCEPT !.raised = w3.raised] ELSE w3

\* ModelAdmin add view of one of the order tables
ModelAdmin_add_view(u, m, id, row) ==
    /\ u \in users
    /\ <<m, id>> \notin DOMAIN objects
    /\ row \in NewRows(m)
    /\ Len(logData) < MaxLog
    /\ request' = [op |-> "save", user |-> u, model |-> m, id |-> id,
                   before |-> Presence(m, id), input |-> row]
    /\ Commit(Model_save(World, m, id, row, u))
    /\ response' = "saved"
    /\ UNCHANGED <<receivers, handlers, thread_locals, users, employees, profiles, now, inventory, lines>>

\* ModelAdmin delete view (obj.delete()): refused when collect finds a
\* protected reference, otherwise the row and its dependents are deleted.
ModelAdmin_delete_view(u, m, id) ==
    LET collected == collect(objects, {<<m, id>>})
    IN /\ u \in users
       /\ <<m, id>> \in DOMAIN objects
       /\ Len(logData) + Cardinality(collected) <= MaxLog
       /\ request' = [op |-> "delete", user |-> u, model |-> m, id |-> id,
                      before |-> Presence(m, id), input |-> None]
       /\ IF protected_objects(objects, collected) # {}
          THEN /\ response' = "ProtectedError"
               /\ trace' = <<>>
               /\ UNCHANGED <<workOrders, productionLogs, logData, objects>>
          ELSE /\ Commit(Collector_delete(World, m, id, u))
               /\ response' = "deleted"
       /\ UNCHANGED <<receivers, handlers, thread_locals, users, employees, profiles, now, inventory, lines>>

NextProtect ==
    \/ \E u \in users, m \in RelatedModels, id \in ObjIds :
          \E row \in NewRows(m) : ModelAdmin_add_view(u, m, id, row)
    \/ \E u \in users, m \in RelatedModels, id \in ObjIds : ModelAdmin_delete_view(u, m, id)

SpecProtect == InitBulk /\ [][NextProtect]_vars

(***************************************************************************)
(* core/signals.py: the receivers of user_logged_in / user_logged_out      *)
(***************************************************************************)
\* Mutant of ProfileNfc: the card identifier is not read from the profile.
ProfileNfc_omitted(user) == None

\* user.profile.nfc_uid if hasattr(user, 'profile') else None
ProfileNfc(user) == IF user \in DOMAIN profiles THEN profiles[user].nfc_uid ELSE None

\* log_user_login: request.user already is the account when the signal is sent
log_user_login(w, user) ==
    create_log(w, "login", user, None, None, Null, ProfileNfc(user), user)

\* log_user_logout: `user` is None when the session was not authenticated
log_user_logout(w, user) ==
    IF user # None
    THEN create_log(w, "logout", user, None, None, Null, None, user)
    ELSE w

\* The login view: the credentials are checked; when they are accepted the
\* session is bound to the account and user_logged_in is sent.
login(u, authenticated) ==
    /\ u \in users
    /\ Len(logData) < MaxLog
    /\ request' = [op |-> "login", user |-> u, model |-> None, id |-> 0,
                   before |-> None, input |-> authenticated]
    /\ IF authenticated
       THEN /\ Commit(log_user_login(World, u))
            /\ response' = "redirect"
       ELSE /\ response' = "invalid_login"
            /\ trace' = <<>>
            /\ UNCHANGED <<workOrders, productionLogs, logData, objects>>
    /\ UNCHANGED <<receivers, handlers, thread_locals, users, employees, profiles, now, inventory, lines>>

\* The logout view; `session` is the account of the request's session, None
\* for an anonymous one.  user_logged_out is sent before the session is flushed.
logout(session) ==
    /\ session \in users \cup {None}
    /\ Len(logData) < MaxLog
    /\ request' = [op |-> "logout", user |-> session, model |-> None, id |-> 0,
                   before |-> None, input |-> None]
    /\ Commit(log_user_logout(World, session))
    /\ response' = "logged_out"
    /\ UNCHANGED <<receivers, handlers, thread_locals, users, employees, profiles, now, inventory, lines>>

NextLogin ==
    \/ \E u \in users, authenticated \in BOOLEAN : login(u, authenticated)
    \/ \E session \in users \cup {None} : logout(session)

SpecLogin == InitWO /\ [][NextLogin]_vars

(***************************************************************************)
(* Access control: AdminSite.admin_view around the transition endpoints     *)
(* (mes/admin.py get_urls) and staff_member_required around the dashboard   *)
(* views (dashboard/views.py)                                              *)
(***************************************************************************)
\* Accounts with is_staff set (create_superuser sets it); "dave" is an
\* active account without it.
StaffAccounts == {"admin", "alice", "bob", "carol"}

\* Mutant of has_permission: every request is let through.
has_permission_open(session) == TRUE

\* request.user.is_active and request.user.is_staff; `session` is the account
\* of the request's session, None for an anonymous request.
has_permission(session) == session \in users /\ session \in StaffAccounts

\* The wrapped view is not called; the answer is a redirect to the login page.
redirect_to_login(op, session, model, id) ==
    /\ session \in users \cup {None}
    /\ request' = [op |-> op, user |-> session, model |-> model, id |-> id,
                   before |-> IF model = "WorkOrder" THEN StatusOf(id) ELSE None,
                   input |-> None]
    /\ response' = "redirect_login"
    /\ trace' = <<>>
    /\ UNCHANGED <<workOrders, productionLogs, logData, receivers, handlers, thread_locals, users, employees,
                   profiles, now, objects, inventory, lines>>

\* self.admin_site.admin_view(self.start_work_order) and its three siblings
mes_workorder_start(session, id) ==
    IF has_permission(session) THEN start_work_order(session, id)
    ELSE redirect_to_login("start", session, "WorkOrder", id)

mes_workorder_stop(session, id) ==
    IF has_permission(session) THEN stop_work_order(session, id)
    ELSE redirect_to_login("stop", session, "WorkOrder", id)

mes_workorder_pause(session, id) ==
    IF has_permission(session) THEN pause_work_order(session, id)
    ELSE redirect_to_login("pause", session, "WorkOrder", id)

mes_workorder_resume(session, id) ==
    IF has_permission(session) THEN resume_work_order(session, id)
    ELSE redirect_to_login("resume", session, "WorkOrder", id)

\* A dashboard view: it reads the store and answers with a page or a JSON
\* document; nothing is written.
DashboardView(op, session, content) ==
    IF has_permission(session)
    THEN /\ request' = [op |-> op, user |-> session, model |-> None, id |-> 0,
                        before |-> None, input |-> None]
         /\ response' = content
         /\ trace' = <<>>
         /\ UNCHANGED <<workOrders, productionLogs, logData, receivers, handlers, thread_locals, users, employees,
                        profiles, now, objects, inventory, lines>>
    ELSE redirect_to_login(op, session, None, 0)

dashboard_index(session) == DashboardView("dashboard_index", session, "html")
api_production_chart(session) == DashboardView("api_production_chart", session, "json")
api_inventory_status(session) == DashboardView("api_inventory_status", session, "json")
api_kpis(session) == DashboardView("api_kpis", session, "json")

DashboardViews ==
    {"dashboard_index", "api_production_chart", "api_inventory_status", "api_kpis"}

\* alice is a staff account with a linked Employee, dave an account without
\* the staff flag.
InitAuth ==
    InitStore({"alice", "dave"}, ("alice" :> [employee |-> "emp1", nfc_uid |-> "04A1"]))

NextAuth ==
    \/ \E session \in users \cup {None}, id \in WOIds : mes_workorder_start(session, id)
    \/ \E session \in users \cup {None}, id \in WOIds : mes_workorder_stop(session, id)
    \/ \E session \in users \cup {None}, id \in WOIds : mes_workorder_pause(session, id)
    \/ \E session \in users \cup {None}, id \in WOIds : mes_workorder_resume(session, id)
    \/ \E session \in users \cup {None} : dashboard_index(session)
    \/ \E session \in users \cup {None} : api_production_chart(session)
    \/ \E session \in users \cup {None} : api_inventory_status(session)
    \/ \E session \in users \cup {None} : api_kpis(session)
    \/ \E u \in users \cap StaffAccounts, id \in WOIds, s \in STATUS_CHOICES :
          WorkOrderAdmin_save(u, id, s)
    \/ Tick

SpecAuth == InitAuth /\ [][NextAuth]_vars

(***************************************************************************)
(* Requests served while the LogData table cannot be written               *)
(***************************************************************************)
EndpointRow(op, id) ==
    CASE op = "start" -> Started(id)
      [] op = "stop" -> Stopped(id)
      [] op = "pause" -> Paused(id)
      [] OTHER -> Resumed(id)

\* One of the four endpoints, served while the INSERT into LogData fails.
transition_log_failure(op, u, id) ==
    TransitionIn(LogFailure, op, u, id, EndpointRow(op, id), op)

\* A save / a delete of a row while the INSERT into LogData fails.
save_instance_log_failure(u, m, id) == save_instance_in(LogFailure, u, m, id)
delete_instance_log_failure(u, m, id) == delete_instance_in(LogFailure, u, m, id)

NextLogFail ==
    \/ \E u \in users, op \in {"start", "stop", "pause", "resume"}, id \in WOIds :
          transition_log_failure(op, u, id)
    \/ \E u \in users, id \in WOIds, s \in STATUS_CHOICES : WorkOrderAdmin_save(u, id, s)
    \/ \E u \in users \cup {None}, id \in ObjIds : save_instance(u, "Product", id)
    \/ \E u \in users \cup {None}, id \in ObjIds : save_instance_log_failure(u, "Product", id)
    \/ \E u \in users \cup {None}, id \in ObjIds :
          delete_instance_log_failure(u, "Product", id)

SpecLogFail == InitBulk /\ [][NextLogFail]_vars

(***************************************************************************)
(* core/signals.py: the receivers of Employee and UserProfile saves        *)
(***************************************************************************)
\* instance.id of an Employee row
EmployeePk(e) == CASE e = "emp1" -> 1 [] e = "emp2" -> 2 [] OTHER -> 3

\* log_employee_save: post_save receiver of Employee
log_employee_save(w, e, created, req) ==
    create_log(w, IF created THEN "create" ELSE "update", None, None, "Employee",
               EmployeePk(e), None, req)

(***************************************************************************)
(* core/management/commands/seed_data.py                                   *)
(***************************************************************************)
\* Values of the unique columns the command inserts (one row stands for each
\* table): Company.code, Employee.employee_id, Product.product_number.
SeedCompany == "SF001"
SeedEmployee == "EMP001"
SeedProduct == "PRD001"

\* unique=True: a row of the table already has the value
Duplicate(objs, m, code) == \E k \in DOMAIN objs : k[1] = m /\ objs[k].code = code

\* The primary key the next INSERT into the table gets.
NextPk(objs, m) ==
    LET ids == {k[2] : k \in {x \in DOMAIN objs : x[1] = m}}
    IN IF ids = {} THEN 1 ELSE (CHOOSE i \in ids : \A j \in ids : j <= i) + 1

\* Model.objects.create(...) in a command: no request, autocommit.  A value
\* repeating a unique column raises IntegrityError; nothing catches it, so the
\* statements after it do not run.
objects_create(w, m, code) ==
    IF w.raised # None THEN w
    ELSE IF Duplicate(w.objects, m, code) THEN [w EXCEPT !.raised = "IntegrityError"]
    ELSE Model_save(w, m, NextPk(w.objects, m), [code |-> code], None)

\* Employee.objects.create(...) of the command
Employee_objects_create(w, e) ==
    IF w.raised # None THEN w
    ELSE IF e \in employees THEN [w EXCEPT !.raised = "IntegrityError"]
    ELSE log_employee_save(w, e, TRUE, None)

\* create_users: the superuser is created unless the account exists
create_users == users \cup {"admin"}

\* Command.handle: create_users, create_core_data, create_erp_data, ...
seed_data ==
    LET w1 == objects_create(World, "Company", SeedCompany)
        w2 == Employee_objects_create(w1, SeedEmployee)
        w3 == objects_create(w2, "Product", SeedProduct)
    IN /\ Len(logData) + 2 <= MaxLog
       /\ request' = [op |-> "seed_data", user |-> None, model |-> None, id |-> 0,
                      before |-> None, input |-> None]
       /\ users' = create_users
       /\ employees' = IF w1.raised = None /\ w2.raised = None
                       THEN employees \cup {SeedEmployee} ELSE employees
       /\ Commit(w3)
       /\ response' = IF w3.raised # None THEN w3.raised ELSE "completed"
       /\ UNCHANGED <<receivers, handlers, thread_locals, profiles, now, inventory, lines>>

\* The store after migration: no account yet.
InitSeed == InitStore({}, <<>>)

SeededModels == {"Company", "Product"}

NextSeed ==
    \/ seed_data
    \/ \E u \in users, m \in SeededModels, id \in ObjIds : ModelAdmin_delete_view(u, m, id)
    \/ \E u \in users, e \in employees : EmployeeAdmin_delete(u, e)
    \/ \E u \in users, target \in users : UserAdmin_delete(u, target)

SpecSeed == InitSeed /\ [][NextSeed]_vars

(***************************************************************************)
(* mrp/models.py, mrp/admin.py: the low-stock indicator of a stock row     *)
(***************************************************************************)
\* Product.min_stock values (hundredths) the product form is submitted with.
MinStocks == {0, 1}

\* ProductAdmin add/change view; min_stock is a field of the form.
ProductAdmin_save(u, id, min_stock) ==
    /\ u \in users
    /\ Len(logData) < MaxLog
    /\ request' = [op |-> "save", user |-> u, model |-> "Product", id |-> id,
                   before |-> Presence("Product", id), input |-> min_stock]
    /\ Commit(Model_save(World, "Product", id,
                         [active |-> TRUE, min_stock |-> min_stock], u))
    /\ response' = "saved"
    /\ UNCHANGED <<receivers, handlers, thread_locals, users, employees, profiles, now, inventory, lines>>

\* MaterialAdmin add/change view
MaterialAdmin_save(u, id) ==
    /\ u \in users
    /\ Len(logData) < MaxLog
    /\ request' = [op |-> "save", user |-> u, model |-> "Material", id |-> id,
                   before |-> Presence("Material", id), input |-> None]
    /\ Commit(Model_save(World, "Material", id, DefaultRow("Material"), u))
    /\ response' = "saved"
    /\ UNCHANGED <<receivers, handlers, thread_locals, users, employees, profiles, now, inventory, lines>>

\* The choices of a nullable foreign-key field of a form: empty or a row of
\* the referred table.
Choices(m) == {Null} \cup {k[2] : k \in {x \in DOMAIN objects : x[1] = m}}

\* InventoryAdmin add/change view: `product` and `material` are two optional
\* fields of the form, and neither the form nor the model has a clean().
InventoryAdmin_save(u, id, product, material, on_hand, reserved) ==
    /\ Len(logData) < MaxLog
    /\ product \in Choices("Product")
    /\ material \in Choices("Material")
    /\ Inventory_save_item(u, id, product, material, on_hand, reserved, 0)

\* Inventory.is_low_stock
is_low_stock(inv) ==
    IF inv.product # Null /\ objects[<<"Product", inv.product>>].min_stock # 0
    THEN inv.quantity_available < objects[<<"Product", inv.product>>].min_stock
    ELSE FALSE

NextStock ==
    \/ \E u \in users, id \in ObjIds, min_stock \in MinStocks :
          ProductAdmin_save(u, id, min_stock)
    \/ \E u \in users, id \in ObjIds : MaterialAdmin_save(u, id)
    \/ \E u \in users, id \in ObjIds :
          \E product \in Choices("Product"), material \in Choices("Material") :
              \E on_hand \in Quantities, reserved \in Quantities :
                  InventoryAdmin_save(u, id, product, material, on_hand, reserved)

SpecStock == InitBulk /\ [][NextStock]_vars

(***************************************************************************)
(* core/admin.py, core/signals.py: saves and deletes of Employee and       *)
(* UserProfile rows                                                        *)
(***************************************************************************)
\* Employee rows the console can add.
EmployeeIds == {"emp1", "emp2"}

\* NFC identifiers a profile form is submitted with.
NfcUids == {None, "04A1"}

\* instance.id of a UserProfile row
ProfilePk(account) == CASE account = "alice" -> 1 [] account = "bob" -> 2 [] OTHER -> 3

\* Mutant of log_profile_save: the creation of a profile is logged as well.
log_profile_save_always(w, account, created, req) ==
    create_log(w, "update", account, None, "UserProfile", ProfilePk(account), None, req)

\* log_profile_save: post_save receiver of UserProfile; user=instance.user
log_profile_save(w, account, created, req) ==
    IF ~created
    THEN create_log(w, "update", account, None, "UserProfile", ProfilePk(account), None, req)
    ELSE w

\* EmployeeAdmin add/change view: Employee.save(), then post_save
EmployeeAdmin_save(u, e) ==
    /\ u \in users
    /\ e \in EmployeeIds
    /\ Len(logData) < MaxAuditLog
    /\ request' = [op |-> "save", user |-> u, model |-> "Employee", id |-> EmployeePk(e),
                   before |-> IF e \in employees THEN "present" ELSE "missing",
                   input |-> e]
    /\ employees' = employees \cup {e}
    /\ Commit(log_employee_save(
                  [World EXCEPT !.trace = <<Written(IF e \in employees THEN "update"
                                                    ELSE "create", "Employee",
                                                    EmployeePk(e))>>],
                  e, e \notin employees, u))
    /\ response' = "saved"
    /\ UNCHANGED <<receivers, handlers, thread_locals, users, profiles, now, inventory, lines>>

\* UserAdmin change view with UserProfileInline: UserProfile.save() of the
\* profile of `account`, then post_save.  employee and nfc_uid are unique:
\* the form refuses a value another profile holds.  The inline has
\* can_delete = False: a profile is deleted only with its account.
UserProfile_save(u, account, employee, nfc_uid) ==
    LET created == account \notin DOMAIN profiles
        others == DOMAIN profiles \ {account}
    IN /\ u \in users
       /\ account \in users
       /\ employee \in employees \cup {None}
       /\ \A a \in others :
             /\ employee # None => profiles[a].employee # employee
             /\ nfc_uid # None => profiles[a].nfc_uid # nfc_uid
       /\ Len(logData) < MaxAuditLog
       /\ request' = [op |-> "save", user |-> u, model |-> "UserProfile",
                      id |-> ProfilePk(account),
                      before |-> IF created THEN "missing" ELSE "present",
                      input |-> account]
       /\ profiles' = (account :> [employee |-> employee, nfc_uid |-> nfc_uid]) @@ profiles
       /\ Commit(log_profile_save(
                     [World EXCEPT !.trace = <<Written(IF created THEN "create" ELSE "update",
                                                       "UserProfile", ProfilePk(account))>>],
                     account, created, u))
       /\ response' = "saved"
       /\ UNCHANGED <<receivers, handlers, thread_locals, users, employees, now, inventory, lines>>

NextProfile ==
    \/ \E u \in users, e \in EmployeeIds : EmployeeAdmin_save(u, e)
    \/ \E u \in users, account \in users :
          \E employee \in EmployeeIds \cup {None}, nfc_uid \in NfcUids :
              UserProfile_save(u, account, employee, nfc_uid)
    \/ \E u \in users, target \in users : UserAdmin_delete(u, target)
    \/ \E u \in users, e \in employees : EmployeeAdmin_delete(u, e)

SpecProfile == InitAudit /\ [][NextProfile]_vars

(***************************************************************************)
(* mrp/models.py, mrp/admin.py: stock movements, reorder rules and the     *)
(* "create reorder requests" action of the inventory list                  *)
(***************************************************************************)
MovementTypes == {"in", "out"}

MovementQuantities == {1}

\* StockMovementAdmin add/change view.  StockMovement has no save() of its
\* own: Model.save() writes the movement's row and sends post_save, whose
\* receiver writes the audit entry.  `product` and `material` are two optional
\* fields of the form.
StockMovementAdmin_save_posting(u, id, movement_type, product, material, quantity) ==
    /\ u \in users
    /\ Len(logData) < MaxLog
    /\ product \in Choices("Product")
    /\ material \in Choices("Material")
    /\ request' = [op |-> "save", user |-> u, model |-> "StockMovement", id |-> id,
                   before |-> Presence("StockMovement", id),
                   input |-> <<movement_type, product, material, quantity>>]
    /\ Commit(Model_save(World, "StockMovement", id,
                         [movement_type |-> movement_type, product |-> product,
                          material |-> material, quantity |-> quantity], u))
    /\ inventory' =
          [k \in DOMAIN inventory |->
              IF inventory[k].product = product /\ inventory[k].material = material
              THEN LET on_hand == inventory[k].quantity_on_hand
                                  + (IF movement_type = "in" THEN quantity ELSE -quantity)
                   IN [inventory[k] EXCEPT
                          !.quantity_on_hand = on_hand,
                          !.quantity_available = on_hand - inventory[k].quantity_reserved]
              ELSE inventory[k]]
    /\ response' = "saved"
    /\ UNCHANGED <<receivers, handlers, thread_locals, users, employees, profiles, now, lines>>

StockMovementAdmin_save(u, id, movement_type, product, material, quantity) ==
    /\ u \in users
    /\ Len(logData) < MaxLog
    /\ product \in Choices("Product")
    /\ material \in Choices("Material")
    /\ request' = [op |-> "save", user |-> u, model |-> "StockMovement", id |-> id,
                   before |-> Presence("StockMovement", id),
                   input |-> <<movement_type, product, material, quantity>>]
    /\ Commit(Model_save(World, "StockMovement", id,
                         [movement_type |-> movement_type, product |-> product,
                          material |-> material, quantity |-> quantity], u))
    /\ response' = "saved"
    /\ UNCHANGED <<receivers, handlers, thread_locals, users, employees, profiles, now, inventory, lines>>

\* StockMovementAdmin delete view: StockMovement has no delete() of its own
\* and no model refers to it.
StockMovementAdmin_delete(u, id) ==
    LET done == Outcome(World, Model_delete(World, "StockMovement", id, u), u)
    IN /\ u \in users
       /\ Len(logData) < MaxLog
       /\ <<"StockMovement", id>> \in DOMAIN objects
       /\ request' = [op |-> "delete", user |-> u, model |-> "StockMovement", id |-> id,
                      before |-> "present", input |-> None]
       /\ Commit(done)
       /\ response' = IF done.raised # None THEN done.raised ELSE "deleted"
       /\ UNCHANGED <<receivers, handlers, thread_locals, users, employees, profiles, now, inventory, lines>>

\* ReorderRuleAdmin add/change view: ReorderRule is not a tracked model.
ReorderRuleAdmin_save(u, id, product, material) ==
    /\ u \in users
    /\ product \in Choices("Product")
    /\ material \in Choices("Material")
    /\ request' = [op |-> "save", user |-> u, model |-> "ReorderRule", id |-> id,
                   before |-> Presence("ReorderRule", id),
                   input |-> <<product, material>>]
    /\ Commit(Model_save(World, "ReorderRule", id,
                         [product |-> product, material |-> material], u))
    /\ response' = "saved"
    /\ UNCHANGED <<receivers, handlers, thread_locals, users, employees, profiles, now, inventory, lines>>

\* InventoryAdmin.create_reorder_requests: counts the selected rows whose
\* quantity_available is below zero and reports the count in a message; the
\* loop body is a comment and a counter, it writes nothing.
create_reorder_requests(u, queryset) ==
    LET count == Cardinality({id \in queryset : inventory[id].quantity_available < 0})
    IN /\ u \in users
       /\ queryset \subseteq DOMAIN inventory
       /\ request' = [op |-> "create_reorder_requests", user |-> u,
                      model |-> "Inventory", id |-> Null, before |-> None,
                      input |-> <<queryset, count>>]
       /\ response' = "message"
       /\ trace' = <<>>
       /\ UNCHANGED <<workOrders, productionLogs, logData, receivers, handlers, thread_locals, users, employees,
                      profiles, now, objects, inventory, lines>>

\* The stock console under a short audit log: one Product, one Material, one
\* stock row with nothing reserved, one movement and one reorder rule.
NextMovement ==
    \/ \E u \in users, id \in ObjIds :
          Len(logData) < MaxAuditLog /\ ProductAdmin_save(u, id, 0)
    \/ \E u \in users, id \in ObjIds :
          Len(logData) < MaxAuditLog /\ MaterialAdmin_save(u, id)
    \/ \E u \in users, id \in ObjIds :
          \E product \in Choices("Product"), material \in Choices("Material") :
              \E on_hand \in Quantities :
                  /\ Len(logData) < MaxAuditLog
                  /\ InventoryAdmin_save(u, id, product, material, on_hand, 0)
    \/ \E u \in users, id \in ObjIds, movement_type \in MovementTypes :
          \E product \in Choices("Product"), material \in Choices("Material") :
              \E quantity \in MovementQuantities :
                  /\ Len(logData) < MaxAuditLog
                  /\ StockMovementAdmin_save(u, id, movement_type, product, material,
                                             quantity)
    \/ \E u \in users, id \in ObjIds :
          Len(logData) < MaxAuditLog /\ StockMovementAdmin_delete(u, id)
    \/ \E u \in users, id \in ObjIds :
          \E product \in Choices("Product"), material \in Choices("Material") :
              ReorderRuleAdmin_save(u, id, product, material)
    \/ \E u \in users : \E queryset \in SUBSET DOMAIN inventory :
          create_reorder_requests(u, queryset)

SpecMovement == InitBulk /\ [][NextMovement]_vars

(***************************************************************************)
(* erp/models.py, erp/admin.py: order headers and their lines              *)
(***************************************************************************)
\* Entered header totals, in hundredths.
TotalAmounts == {0, 100}

\* PurchaseOrderAdmin / SalesOrderAdmin add/change view, the header's form:
\* total_amount is an editable field of the form, stored as entered.
OrderAdmin_save(u, m, id, total_amount) ==
    /\ u \in users
    /\ m \in {"PurchaseOrder", "SalesOrder"}
    /\ Len(logData) < MaxAuditLog
    /\ request' = [op |-> "save", user |-> u, model |-> m, id |-> id,
                   before |-> Presence(m, id), input |-> total_amount]
    /\ Commit(Model_save(World, m, id,
                         [status |-> "draft", total_amount |-> total_amount], u))
    /\ response' = "saved"
    /\ UNCHANGED <<receivers, handlers, thread_locals, users, employees, profiles, now, inventory, lines>>

\* delete() of an order line: neither line model overrides Model.delete(), and
\* no model refers to a line.
Line_delete(u, m, id) ==
    LET keep == DOMAIN lines \ {<<m, id>>}
        w1 == [World EXCEPT !.trace = <<Written("delete", m, id)>>]
    IN /\ u \in users \cup {None}
       /\ <<m, id>> \in DOMAIN lines
       /\ request' = [op |-> "delete", user |-> u, model |-> m, id |-> id,
                      before |-> "present", input |-> None]
       /\ lines' = [k \in keep |-> lines[k]]
       /\ Commit(post_delete(w1, m, id, u))
       /\ response' = "deleted"
       /\ UNCHANGED <<receivers, handlers, thread_locals, users, employees, profiles, now, inventory>>

\* Headers and lines together: the line with id i is a line of the header
\* with id i, and a line is entered under an existing header
\* (purchase_order / sales_order is a required foreign key).
NextTotal ==
    \/ \E u \in users, m \in {"PurchaseOrder", "SalesOrder"}, id \in LineIds :
          \E total_amount \in TotalAmounts : OrderAdmin_save(u, m, id, total_amount)
    \/ \E u \in users \cup {None}, id \in LineIds, mode \in RoundingModes :
          \E q \in {5, 1000}, p \in {10} :
              /\ <<"PurchaseOrder", id>> \in DOMAIN objects
              /\ PurchaseOrderLine_save(u, id, q, p, mode)
    \/ \E u \in users \cup {None}, id \in LineIds, mode \in RoundingModes :
          \E q \in {5, 1000}, p \in {10} :
              /\ <<"SalesOrder", id>> \in DOMAIN objects
              /\ SalesOrderLine_save(u, id, q, p, mode)
    \/ \E u \in users \cup {None}, m \in {"PurchaseOrderLine", "SalesOrderLine"} :
          \E id \in LineIds : Line_delete(u, m, id)

SpecTotal == InitBulk /\ [][NextTotal]_vars

(***************************************************************************)
(* dashboard/views.py, mes/models.py: the OEE figure of the KPI endpoint   *)
(***************************************************************************)
\* Days per month of the model's calendar; day numbers count from 0.
MonthDays == 2

KpiIds == {1, 2}

\* Work orders as the console's form can store them: planned_end,
\* actual_start and actual_end are optional, and no field is validated
\* against another.
KpiRows ==
    {[status |-> st, planned_start |-> ps, planned_end |-> pe,
      actual_start |-> as, actual_end |-> ae] :
        st \in {"completed", "in_progress"}, ps \in {-1, 0},
        pe \in {Absent, At(0), At(1)},
        as \in {Absent, At(0)}, ae \in {Absent, At(0), At(1), At(2)}}

\* today.replace(day=1)
month_start(today) == today - (today % MonthDays)

\* WorkOrder.efficiency, in tenths of a percent; Absent when it is None.
\* (The durations above make every quotient exact.)
efficiency(wo) ==
    IF /\ wo.actual_start # Absent /\ wo.actual_end # Absent
       /\ wo.planned_end # Absent
    THEN LET planned_duration == wo.planned_end[1] - wo.planned_start
             actual_duration == wo.actual_end[1] - wo.actual_start[1]
         IN IF actual_duration > 0
            THEN At((planned_duration * 1000) \div actual_duration)
            ELSE Absent
    ELSE Absent

\* The truth value Python gives a value in `if wo.efficiency:`: None and 0.0
\* are false.
Truthy(v) == v # Absent /\ v # At(0)

RECURSIVE Sum(_, _)
Sum(f, S) == IF S = {} THEN 0
             ELSE LET x == CHOOSE y \in S : TRUE IN f[x] + Sum(f, S \ {x})

\* The work orders the loop of get_kpis adds up.
Counted(rows, ids) == {id \in ids : Truthy(efficiency(rows[id]))}

\* get_kpis()['oee'], in tenths of a percent: round(oee, 1) of the average
\* over the counted work orders, 0 without any.
get_kpis_oee(objs, today) ==
    LET wo_this_month == {k \in DOMAIN objs :
                             /\ k[1] = "WorkOrder"
                             /\ objs[k].planned_start >= month_start(today)}
        completed_wo == {k \in wo_this_month : objs[k].status = "completed"}
        counted == Counted(objs, completed_wo)
        efficiency_avg == Sum([k \in counted |-> efficiency(objs[k])[1]], counted)
        count == Cardinality(counted)
    IN IF completed_wo # {} /\ count > 0 THEN efficiency_avg \div count ELSE 0

\* api_kpis answers with get_kpis() as JSON.
api_kpis_data(session) ==
    /\ has_permission(session)
    /\ request' = [op |-> "api_kpis", user |-> session, model |-> None, id |-> 0,
                   before |-> None, input |-> None]
    /\ response' = "json"
    /\ trace' = <<[kind |-> "response", oee |-> get_kpis_oee(objects, now)]>>
    /\ UNCHANGED <<workOrders, productionLogs, logData, receivers, handlers, thread_locals, users, employees,
                   profiles, now, objects, inventory, lines>>

\* Two stored work orders, drawn from KpiRows.
InitKpi ==
    /\ workOrders = <<>>
    /\ productionLogs = <<>>
    /\ logData = <<>>
    /\ receivers \in register_model_signals
    /\ users = {"alice"}
    /\ employees = {"emp1"}
    /\ profiles = ("alice" :> [employee |-> "emp1", nfc_uid |-> "04A1"])
    /\ now = 0
    /\ request = NoRequest
    /\ response = None
    /\ trace = <<>>
    /\ objects \in [{<<"WorkOrder", id>> : id \in KpiIds} -> KpiRows]
    /\ inventory = <<>>
    /\ lines = <<>>
    /\ thread_locals = None
    /\ handlers = [worker \in Workers |-> <<>>]

NextKpi ==
    \/ \E session \in users : api_kpis_data(session)
    \/ Tick

SpecKpi == InitKpi /\ [][NextKpi]_vars

(***************************************************************************)
(* core/signals.py: RequestMiddleware and the request slot                 *)
(***************************************************************************)
\* RequestMiddleware.__call__ around a console save of a tracked row by
\* account u: set_current_request(request), get_response(request),
\* set_current_request(None).  There is no try/finally: when get_response
\* raises, the last statement is not reached.  `fault` makes the view's audit
\* write fail; `propagate` says whether the exception leaves get_response
\* (settings.DEBUG_PROPAGATE_EXCEPTIONS) or is turned into a 500 response
\* inside it.  The settings module is not among the sources, so both happen.
RequestMiddleware_call(u, m, id, fault, propagate) ==
    LET w == IF fault THEN LogFailure ELSE World
        done == Outcome(w, Model_save(w, m, id, DefaultRow(m), u), u)
        raised == done.raised # None /\ propagate
    IN /\ u \in users
       /\ Len(logData) < MaxAuditLog
       /\ request' = [op |-> "save", user |-> u, model |-> m, id |-> id,
                      before |-> Presence(m, id),
                      input |-> IF fault THEN "LogData unavailable" ELSE None]
       /\ Commit(done)
       /\ response' = IF done.raised # None THEN done.raised ELSE "saved"
       /\ thread_locals' = IF raised THEN u ELSE None
       /\ UNCHANGED <<receivers, handlers, users, employees, profiles, now, inventory, lines>>

\* A save of a tracked row by code running outside the middleware, in the
\* execution context that served the earlier requests: create_log reads the
\* slot as it was left.
save_outside_request(m, id) ==
    /\ Len(logData) < MaxAuditLog
    /\ request' = [op |-> "save", user |-> None, model |-> m, id |-> id,
                   before |-> Presence(m, id), input |-> None]
    /\ Commit(Model_save(World, m, id, DefaultRow(m), get_current_request))
    /\ response' = "saved"
    /\ UNCHANGED <<receivers, handlers, thread_locals, users, employees, profiles, now, inventory,
                   lines>>

NextSlot ==
    \/ \E u \in users, m \in {"Product", "Material"}, id \in ObjIds :
          \E fault \in BOOLEAN, propagate \in BOOLEAN :
              RequestMiddleware_call(u, m, id, fault, propagate)
    \/ \E m \in {"Product", "Material"}, id \in ObjIds : save_outside_request(m, id)

SpecSlot == InitAudit /\ [][NextSlot]_vars

(***************************************************************************)
(* mes/admin.py: transition requests handled by several workers at once    *)
(***************************************************************************)
\* The assignments an endpoint makes to the work_order it has read.
Assigned(op, work_order, t) ==
    CASE op = "start"  -> [work_order EXCEPT !.status = "in_progress",
                                             !.actual_start = At(t)]
      [] op = "stop"   -> [work_order EXCEPT !.status = "completed", !.actual_end = At(t)]
      [] op = "pause"  -> [work_order EXCEPT !.status = "paused"]
      [] op = "resume" -> [work_order EXCEPT !.status = "in_progress"]

\* First half of an endpoint on an idle worker: WorkOrder.objects.get(pk) reads
\* the whole row into the handler's work_order, and the assignments are made
\* to that copy.  Nothing is locked (no select_for_update, no transaction).
get_work_order(worker, op, u, id) ==
    /\ u \in users
    /\ handlers[worker] = <<>>
    /\ id \in DOMAIN workOrders
    /\ handlers' = [handlers EXCEPT ![worker] =
                       <<[op |-> op, user |-> u, id |-> id,
                          work_order |-> Assigned(op, workOrders[id], now)]>>]
    /\ request' = [op |-> "get", user |-> u, model |-> "WorkOrder", id |-> id,
                   before |-> StatusOf(id), input |-> op]
    /\ response' = None
    /\ trace' = <<>>
    /\ UNCHANGED <<workOrders, productionLogs, logData, receivers, thread_locals, users,
                   employees, profiles, now, objects, inventory, lines>>

\* Second half: work_order.save() writes every column of the copy over the
\* stored row, then the ProductionLog row is created.
save_work_order(worker) ==
    /\ handlers[worker] # <<>>
    /\ RoomForTransition
    /\ LET h == handlers[worker][1]
           served == ProductionLog_create(
                         WorkOrder_save(World, h.id, h.work_order, h.user),
                         [work_order |-> h.id, operator |-> Operator(h.user),
                          action_type |-> h.op], h.user)
       IN /\ request' = [op |-> h.op, user |-> h.user, model |-> "WorkOrder",
                         id |-> h.id, before |-> StatusOf(h.id), input |-> None]
          /\ Commit(served)
          /\ response' = "redirect"
    /\ handlers' = [handlers EXCEPT ![worker] = <<>>]
    /\ UNCHANGED <<receivers, thread_locals, users, employees, profiles, now, inventory,
                   lines>>

\* One work order, entered by the console in one of two statuses, and two
\* workers serving transition requests on it.
NextRace ==
    \/ \E u \in users, s \in {"ready", "in_progress"} : WorkOrderAdmin_save(u, 1, s)
    \/ \E worker \in Workers, op \in {"start", "stop", "pause", "resume"} :
          \E u \in users, id \in WOIds : get_work_order(worker, op, u, id)
    \/ \E worker \in Workers : save_work_order(worker)
    \/ Tick

SpecRace == InitBulk /\ [][NextRace]_vars

(***************************************************************************)
(* Properties of the work-order endpoints                                  *)
(***************************************************************************)
Transitions == {"start", "stop", "pause", "resume"}

\* The step handled a request `op` that found work order `id` in the store.
Handled(op, id) ==
    /\ request'.op = op
    /\ request'.id = id
    /\ id \in DOMAIN workOrders

\* The step appended exactly one ProductionLog row, `row`.
AppendsOneProductionLog(row) ==
    /\ Len(productionLogs') = Len(productionLogs) + 1
    /\ SubSeq(productionLogs', 1, Len(productionLogs)) = productionLogs
    /\ productionLogs'[Len(productionLogs')] = row

\* C1: a Start request on a work order whose status is not 'ready' is rejected:
\* it leaves status and actual_start as they were and creates no ProductionLog.
C1_StartRejectedUnlessReady ==
    [][\A id \in WOIds :
          (Handled("start", id) /\ workOrders[id].status # "ready")
          => /\ workOrders'[id].status = workOrders[id].status
             /\ workOrders'[id].actual_start = workOrders[id].actual_start
             /\ productionLogs' = productionLogs]_vars

\* C2: a transition request changes a work order's status only along
\* ready->in_progress (Start), in_progress->paused (Pause),
\* paused->in_progress (Resume), in_progress->completed (Stop).
StateMachineEdges ==
    {<<"start", "ready", "in_progress">>, <<"pause", "in_progress", "paused">>,
     <<"resume", "paused", "in_progress">>, <<"stop", "in_progress", "completed">>}

C2_StatusFollowsStateMachine ==
    [][\A id \in WOIds :
          (/\ request'.op \in Transitions
           /\ id \in DOMAIN workOrders
           /\ workOrders'[id].status # workOrders[id].status)
          => <<request'.op, workOrders[id].status, workOrders'[id].status>>
                 \in StateMachineEdges]_vars

\* C3: a Start request on a 'ready' work order sets status to in_progress and
\* actual_start to the current time, and appends exactly one ProductionLog row
\* with action 'start' for that work order, whose operator is the Employee
\* linked to the requesting account (absent when there is none).
LinkedEmployee(u) ==
    IF u \in DOMAIN profiles /\ profiles[u].employee \in employees
    THEN profiles[u].employee ELSE None

C3_StartOnReady ==
    [][\A id \in WOIds :
          (Handled("start", id) /\ workOrders[id].status = "ready")
          => /\ workOrders'[id].status = "in_progress"
             /\ workOrders'[id].actual_start = At(now)
             /\ workOrders'[id].actual_end = workOrders[id].actual_end
             /\ AppendsOneProductionLog([work_order |-> id,
                                         operator |-> LinkedEmployee(request'.user),
                                         action_type |-> "start"])]_vars

\* A Start request by an account with a linked Employee has just been served
\* on a work order that was 'ready'.
C3_Witness ==
    /\ request.op = "start"
    /\ request.before = "ready"
    /\ request.user = "alice"
    /\ response = "redirect"
    /\ workOrders[request.id].status = "in_progress"
    /\ productionLogs[Len(productionLogs)].operator = "emp1"

\* C4: a Stop request takes effect only on an in_progress work order (status
\* completed, actual_end = now, one ProductionLog 'stop'); on any other status
\* it changes neither status nor actual_end and appends no ProductionLog.
C4_StopOnlyWhenInProgress ==
    [][\A id \in WOIds :
          Handled("stop", id)
          => IF workOrders[id].status = "in_progress"
             THEN /\ workOrders'[id].status = "completed"
                  /\ workOrders'[id].actual_end = At(now)
                  /\ AppendsOneProductionLog([work_order |-> id,
                                              operator |-> LinkedEmployee(request'.user),
                                              action_type |-> "stop"])
             ELSE /\ workOrders'[id].status = workOrders[id].status
                  /\ workOrders'[id].actual_end = workOrders[id].actual_end
                  /\ productionLogs' = productionLogs]_vars

\* C7: within one request every LogData entry is written right after the store
\* write it describes; a transition writes, in this order, the work-order
\* update, its audit entry, the ProductionLog row, its audit entry.
Writes(t) == SelectSeq(t, LAMBDA e : e.kind = "write")
Audits(t) == SelectSeq(t, LAMBDA e : e.kind = "audit")

C7_AuditAfterMutation ==
    /\ \A i \in 1..Len(trace) :
          trace[i].kind = "audit"
          => /\ i > 1
             /\ trace[i - 1] = Written(trace[i].action, trace[i].model, trace[i].id)
    /\ (request.op \in Transitions /\ response = "redirect")
       => /\ Writes(trace) = <<Written("update", "WorkOrder", request.id),
                               Written("create", "ProductionLog", Len(productionLogs))>>
          /\ Len(Audits(trace)) \in {0, 2}
          /\ Len(Audits(trace)) = 2
             => /\ Len(logData) >= 2
                /\ logData[Len(logData) - 1].model_name = "WorkOrder"
                /\ logData[Len(logData)].model_name = "ProductionLog"

\* A transition has just written all four rows.
C7_Witness ==
    /\ request.op = "stop"
    /\ response = "redirect"
    /\ Len(trace) = 4
    /\ trace[2].kind = "audit" /\ trace[2].model = "WorkOrder"
    /\ trace[4].kind = "audit" /\ trace[4].model = "ProductionLog"

(***************************************************************************)
(* Properties of the audit log                                             *)
(***************************************************************************)
\* The step appended exactly one LogData row, for `action` on row `id` of `m`.
AppendsOneLogData(action, m, id) ==
    /\ Len(logData') = Len(logData) + 1
    /\ SubSeq(logData', 1, Len(logData)) = logData
    /\ logData'[Len(logData')].action_type = action
    /\ logData'[Len(logData')].model_name = m
    /\ logData'[Len(logData')].object_id = id

\* C5: once the application has started, each create, update or delete of a
\* row of a tracked model appends exactly one LogData entry with that action,
\* the model's name and the row's id.
C5_TrackedMutationLoggedOnce ==
    [][\A m \in TrackedModels, id \in ObjIds :
          (request'.op \in {"save", "delete"} /\ request'.model = m /\ request'.id = id)
          => AppendsOneLogData(
                 CASE request'.op = "delete" -> "delete"
                   [] request'.op = "save" /\ <<m, id>> \in DOMAIN objects -> "update"
                   [] OTHER -> "create",
                 m, id)]_vars

\* C8: the audit log is append-only: no step changes a field of an entry that
\* has been written, or removes it.
C8_LogDataAppendOnly ==
    [][\A i \in 1..Len(logData) :
          /\ i <= Len(logData')
          /\ logData'[i] = logData[i]]_vars

\* C6: every console operation that changes a tracked row is captured in the
\* audit log; in particular a bulk action appends a LogData entry for every
\* row whose stored state it changes (stated for the case that all generic
\* receivers are connected).
C6_BulkActionsLogged ==
    [][(request'.op \in BulkActions /\ receivers = TrackedModels)
       => \A k \in DOMAIN objects :
             objects'[k] # objects[k]
             => \E i \in (Len(logData) + 1)..Len(logData') :
                   /\ logData'[i].model_name = k[1]
                   /\ logData'[i].object_id = k[2]]_vars

(***************************************************************************)
(* Properties of the computed columns                                      *)
(***************************************************************************)
\* C9: after any sequence of Inventory saves, whatever was entered, every
\* stored row has quantity_available = quantity_on_hand - quantity_reserved.
C9_AvailableIsOnHandMinusReserved ==
    \A id \in DOMAIN inventory :
        inventory[id].quantity_available
            = inventory[id].quantity_on_hand - inventory[id].quantity_reserved

\* A row has just been saved again with an entered quantity_available that
\* differs from on-hand minus reserved.
C9_Witness ==
    /\ request.op = "save" /\ request.model = "Inventory"
    /\ request.before = "present"
    /\ response = "saved"
    /\ request.input[3] # request.input[1] - request.input[2]
    /\ inventory[request.id].quantity_on_hand = request.input[1]
    /\ inventory[request.id].quantity_reserved = request.input[2]

\* C10 as stated: after any save of an order line its stored total_price
\* equals quantity x unit_price.
C10_TotalIsExactProduct ==
    \A k \in DOMAIN lines :
        lines[k].total_price * 100 = lines[k].quantity * lines[k].unit_price

\* C10 as amended: the stored total_price is quantity x unit_price rounded to
\* two decimal places (at most half a hundredth away, and equal to it when
\* the product has no more than two decimal places), recomputed by every save
\* from the quantity and unit_price that save stores.
C10_TotalIsRoundedProduct ==
    \A k \in DOMAIN lines :
        LET exact == lines[k].quantity * lines[k].unit_price
        IN /\ Abs(lines[k].total_price * 100 - exact) <= 50
           /\ exact % 100 = 0 => lines[k].total_price * 100 = exact

\* A line has just been saved again with changed inputs whose product has
\* more than two decimal places.
C10_Witness ==
    /\ request.op = "save" /\ request.model = "PurchaseOrderLine"
    /\ request.before = "present"
    /\ response = "saved"
    /\ lines[<<"PurchaseOrderLine", request.id>>].quantity = 15
    /\ lines[<<"PurchaseOrderLine", request.id>>].unit_price = 10
    /\ lines[<<"PurchaseOrderLine", request.id>>].total_price = 2

(***************************************************************************)
(* Properties of the delete rules                                          *)
(***************************************************************************)
\* C11: deleting a Supplier referenced by a PurchaseOrder, a Customer
\* referenced by a SalesOrder, a Product referenced by an order line or an
\* Invoice referenced by a Payment fails, and every row (the referred one, the
\* orders, their lines) is still present and unchanged afterwards.
ProtectedBy(m, id) ==
    {k \in DOMAIN objects :
        \E r \in Relations :
            /\ r[4] = "PROTECT" /\ r[3] = m /\ r[1] = k[1]
            /\ objects[k][r[2]] = id}

C11_ProtectedDeleteFails ==
    [][\A m \in {"Supplier", "Customer", "Product", "Invoice"}, id \in ObjIds :
          (/\ request'.op = "delete" /\ request'.model = m /\ request'.id = id
           /\ ProtectedBy(m, id) # {})
          => /\ response' = "ProtectedError"
             /\ objects' = objects]_vars

\* The delete of a Supplier has just been refused while its PurchaseOrder
\* and that order's line are in the store.
C11_Witness ==
    /\ request.op = "delete" /\ request.model = "Supplier"
    /\ response = "ProtectedError"
    /\ <<"Supplier", 1>> \in DOMAIN objects
    /\ <<"PurchaseOrder", 1>> \in DOMAIN objects
    /\ objects[<<"PurchaseOrder", 1>>].supplier = 1
    /\ <<"PurchaseOrderLine", 1>> \in DOMAIN objects

(***************************************************************************)
(* Properties of the session receivers                                     *)
(***************************************************************************)
\* The step appended exactly one LogData row.
AppendsOneEntry ==
    /\ Len(logData') = Len(logData) + 1
    /\ SubSeq(logData', 1, Len(logData)) = logData

\* C12: each successful login appends exactly one LogData entry with action
\* 'login', the account as user and the NFC identifier of the account's
\* profile (absent without a profile); each logout of an authenticated
\* account appends exactly one entry with action 'logout' for that account.
C12_LoginLogoutLogged ==
    [][/\ (request'.op = "login" /\ response' = "redirect")
          => /\ AppendsOneEntry
             /\ logData'[Len(logData')].action_type = "login"
             /\ logData'[Len(logData')].user = request'.user
             /\ logData'[Len(logData')].nfc_uid
                    = (IF request'.user \in DOMAIN profiles
                       THEN profiles[request'.user].nfc_uid ELSE None)
       /\ (request'.op = "logout" /\ request'.user \in users)
          => /\ AppendsOneEntry
             /\ logData'[Len(logData')].action_type = "logout"
             /\ logData'[Len(logData')].user = request'.user]_vars

\* An account whose profile carries a card identifier has logged in and then
\* out again.
C12_Witness ==
    /\ request.op = "logout" /\ request.user = "alice"
    /\ Len(logData) >= 2
    /\ logData[Len(logData) - 1].action_type = "login"
    /\ logData[Len(logData) - 1].user = "alice"
    /\ logData[Len(logData) - 1].nfc_uid = "04A1"
    /\ logData[Len(logData)].action_type = "logout"

\* C13: a transition endpoint called with an id that matches no WorkOrder
\* answers not-found (Http404, a 404 response), creates no ProductionLog row
\* and changes no work order.
C13_UnknownIdIsNotFound ==
    [][\A id \in WOIds :
          (request'.op \in Transitions /\ request'.id = id /\ id \notin DOMAIN workOrders)
          => /\ response' = "Http404"
             /\ productionLogs' = productionLogs
             /\ workOrders' = workOrders]_vars

(***************************************************************************)
(* Properties of the access control                                        *)
(***************************************************************************)
\* C14: a request to a transition endpoint, the dashboard page or one of its
\* JSON endpoints that carries no authenticated staff session is refused with
\* a redirect to the login page: no work order changes, no ProductionLog row
\* is appended and no dashboard data is returned.
C14_StaffSessionRequired ==
    [][(/\ request'.op \in Transitions \cup DashboardViews
        /\ (request'.user = None \/ request'.user \notin StaffAccounts))
       => /\ response' = "redirect_login"
          /\ workOrders' = workOrders
          /\ productionLogs' = productionLogs]_vars

\* A Start request of an account without the staff flag has just been refused
\* on a work order that is 'ready'.
C14_Witness ==
    /\ request.op = "start" /\ request.user = "dave"
    /\ response = "redirect_login"
    /\ request.id \in DOMAIN workOrders
    /\ workOrders[request.id].status = "ready"

(***************************************************************************)
(* Properties of requests served while the audit log cannot be written     *)
(***************************************************************************)
\* C15: a failure while writing the LogData entry of a mutation does not
\* abort the operation it describes: the save or delete still takes effect,
\* and a work-order transition still applies both the work-order update and
\* the ProductionLog row.
TargetStatus ==
    [start |-> "in_progress", stop |-> "completed", pause |-> "paused",
     resume |-> "in_progress"]

C15_LogFailureDoesNotAbort ==
    [][response' = "DatabaseError"
       => /\ request'.op \in Transitions
             => /\ workOrders'[request'.id].status = TargetStatus[request'.op]
                /\ Len(productionLogs') = Len(productionLogs) + 1
                /\ productionLogs'[Len(productionLogs')].action_type = request'.op
          /\ request'.op = "save"
             => <<request'.model, request'.id>> \in DOMAIN objects'
          /\ request'.op = "delete"
             => <<request'.model, request'.id>> \notin DOMAIN objects']_vars

(***************************************************************************)
(* Properties of the seed command                                          *)
(***************************************************************************)
\* The store holds what a run of seed_data creates.
Seeded ==
    /\ "admin" \in users
    /\ Duplicate(objects, "Company", SeedCompany)
    /\ SeedEmployee \in employees
    /\ Duplicate(objects, "Product", SeedProduct)

RowsOf(objs, m) == {k \in DOMAIN objs : k[1] = m}

\* C16: a second run of seed_data on a seeded store succeeds, leaves the
\* accounts as they are (no second 'admin') and creates a second set of
\* domain rows.
C16_SecondSeedDuplicatesDomainData ==
    [][(request'.op = "seed_data" /\ Seeded)
       => /\ response' = "completed"
          /\ users' = users
          /\ \A m \in SeededModels :
                Cardinality(RowsOf(objects', m)) = Cardinality(RowsOf(objects, m)) + 1]_vars

\* C17: creating, updating or deleting a PurchaseOrderLine or SalesOrderLine
\* on its own, without a save of its order header, appends no LogData entry.
C17_OrderLinesNotLogged ==
    [][\A m \in UntrackedModels :
          (request'.op \in {"save", "delete"} /\ request'.model = m)
          => logData' = logData]_vars

\* A PurchaseOrderLine has just been deleted while the receivers are
\* connected and its header, whose creation was logged, is in the store.
C17_Witness ==
    /\ request.op = "delete" /\ request.model = "PurchaseOrderLine"
    /\ response = "deleted"
    /\ receivers = TrackedModels
    /\ <<"PurchaseOrder", 1>> \in DOMAIN objects
    /\ Len(logData) = 1
    /\ logData[1].model_name = "PurchaseOrder"

(***************************************************************************)
(* Properties of the low-stock indicator                                   *)
(***************************************************************************)
\* C18: a stock row linked to a Material never reports is_low_stock = true,
\* whatever its quantities and whatever its other fields are.
C18_MaterialNeverLowStock ==
    \A id \in DOMAIN inventory :
        inventory[id].material # Null => ~is_low_stock(inventory[id])

\* C19: Pause takes effect only on an in_progress work order and Resume only
\* on a paused one; when effective each changes nothing of the work order but
\* its status (to paused / in_progress) and appends exactly one ProductionLog
\* row with action 'pause' / 'resume'; otherwise nothing changes.
PauseResume ==
    [pause |-> [from |-> "in_progress", to |-> "paused"],
     resume |-> [from |-> "paused", to |-> "in_progress"]]

C19_PauseResumeGuardedAndFramed ==
    [][\A id \in WOIds, op \in {"pause", "resume"} :
          Handled(op, id)
          => IF workOrders[id].status = PauseResume[op].from
             THEN /\ workOrders'[id] = [workOrders[id] EXCEPT !.status = PauseResume[op].to]
                  /\ AppendsOneProductionLog([work_order |-> id,
                                              operator |-> LinkedEmployee(request'.user),
                                              action_type |-> op])
             ELSE /\ workOrders'[id] = workOrders[id]
                  /\ productionLogs' = productionLogs]_vars

(***************************************************************************)
(* Properties of the Employee and UserProfile receivers                    *)
(***************************************************************************)
\* C20: a save of a Profile appends a LogData entry (action 'update',
\* model_name 'UserProfile', user = the profile's account) if and only if it
\* is not the profile's creation; creating or updating an Employee appends a
\* 'create' / 'update' entry; deleting an Employee or a Profile (which goes
\* with its account) appends none.
C20_ProfileAndEmployeeLogging ==
    [][/\ (request'.op = "save" /\ request'.model = "UserProfile")
          => IF request'.input \in DOMAIN profiles
             THEN /\ AppendsOneEntry
                  /\ logData'[Len(logData')].action_type = "update"
                  /\ logData'[Len(logData')].model_name = "UserProfile"
                  /\ logData'[Len(logData')].user = request'.input
             ELSE logData' = logData
       /\ (request'.op = "save" /\ request'.model = "Employee")
          => /\ AppendsOneEntry
             /\ logData'[Len(logData')].model_name = "Employee"
             /\ logData'[Len(logData')].action_type
                    = (IF request'.input \in employees THEN "update" ELSE "create")
       /\ (/\ request'.op = "delete"
           /\ (request'.model = "Employee" \/ DOMAIN profiles' # DOMAIN profiles))
          => Len(logData') = Len(logData)]_vars

\* The profile of one account has just been updated by another account, after
\* a profile was created without an entry.
C20_Witness ==
    /\ request.op = "save" /\ request.model = "UserProfile"
    /\ request.before = "present"
    /\ request.user = "carol" /\ request.input = "alice"
    /\ "carol" \in DOMAIN profiles
    /\ Len(logData) = 1
    /\ logData[1].action_type = "update"
    /\ logData[1].user = "alice"

(***************************************************************************)
(* Properties of the bulk status actions                                   *)
(***************************************************************************)
\* C21: a bulk status action moves exactly the selected rows that are in its
\* source status to its target status; every other row, selected or not, and
\* every other field stay as they were.
BulkStatus ==
    [mark_as_sent |-> [model |-> "PurchaseOrder", from |-> "draft", to |-> "sent"],
     mark_as_confirmed |-> [model |-> "PurchaseOrder", from |-> "sent", to |-> "confirmed"],
     confirm_orders |-> [model |-> "SalesOrder", from |-> "draft", to |-> "confirmed"],
     approve_requests |-> [model |-> "PurchaseRequest", from |-> "pending",
                           to |-> "approved"]]

C21_BulkStatusFrame ==
    [][request'.op \in DOMAIN BulkStatus
       => LET a == BulkStatus[request'.op]
          IN /\ DOMAIN objects' = DOMAIN objects
             /\ \A k \in DOMAIN objects :
                   objects'[k] = IF /\ k[1] = a.model
                                    /\ k[2] \in request'.input
                                    /\ objects[k].status = a.from
                                 THEN [objects[k] EXCEPT !.status = a.to]
                                 ELSE objects[k]]_vars

\* 'Mark as sent' has just been run on two selected Purchase Orders: the
\* draft one was moved and kept its amount, the received one was left alone.
C21_Witness ==
    /\ request.op = "mark_as_sent" /\ request.input = {1, 2}
    /\ trace = <<Written("update", "PurchaseOrder", 1)>>
    /\ objects[<<"PurchaseOrder", 1>>] = [status |-> "sent", total_amount |-> 100]
    /\ objects[<<"PurchaseOrder", 2>>].status = "received"


ExactlyOneItem(row) == (row.product # Null) # (row.material # Null)

C23_ExactlyOneOfProductAndMaterial ==
    /\ \A k \in DOMAIN inventory : ExactlyOneItem(inventory[k])
    /\ \A k \in DOMAIN objects :
          k[1] \in {"StockMovement", "ReorderRule"} => ExactlyOneItem(objects[k])


\* C24: a save or a delete of a PurchaseOrderLine or SalesOrderLine leaves
\* the total_amount of every order header as it was; a header's total_amount
\* changes only in a save of that header.
Headers(objs) == {k \in DOMAIN objs : k[1] \in {"PurchaseOrder", "SalesOrder"}}

C24_LineEditsLeaveHeaderTotal ==
    [][/\ request'.model \in {"PurchaseOrderLine", "SalesOrderLine"}
          => /\ Headers(objects') = Headers(objects)
             /\ \A k \in Headers(objects) :
                   objects'[k].total_amount = objects[k].total_amount
       /\ \A k \in Headers(objects) \cap Headers(objects') :
             objects'[k].total_amount # objects[k].total_amount
             => request'.op = "save" /\ request'.model = k[1] /\ request'.id = k[2]]_vars

\* A line with a total of 1.00 was saved under a purchase order whose
\* stored total is 0: the header total differs from the sum of its lines.
C24_Witness ==
    /\ request.model = "PurchaseOrderLine" /\ request.op = "save" /\ response = "saved"
    /\ <<"PurchaseOrder", 1>> \in DOMAIN objects
    /\ objects[<<"PurchaseOrder", 1>>].total_amount = 0
    /\ <<"PurchaseOrderLine", 1>> \in DOMAIN lines
    /\ lines[<<"PurchaseOrderLine", 1>>].total_price = 100


\* C25: the oee figure is the average of efficiency over the completed work
\* orders planned in the current month whose efficiency is defined, one whose
\* efficiency is 0 included, and 0 when there is none.
DefinedEfficiency(objs, today) ==
    {k \in DOMAIN objs : /\ k[1] = "WorkOrder"
                         /\ objs[k].status = "completed"
                         /\ objs[k].planned_start >= month_start(today)
                         /\ efficiency(objs[k]) # Absent}

C25_OeeAveragesDefinedEfficiency ==
    request.op = "api_kpis" /\ response = "json"
    => LET S == DefinedEfficiency(objects, now)
       IN trace[1].oee = IF S = {} THEN 0
                         ELSE Sum([k \in S |-> efficiency(objects[k])[1]], S)
                              \div Cardinality(S)


\* C26: an entry written while no request is handled has no IP address, no
\* device string and no defaulted user or employee; an entry written while a
\* request is handled carries the request's address, its user agent cut to
\* 200 characters, its account and the account's Employee; and after every
\* request, answered or raised, the slot is empty.
C26_SlotHoldsOnlyTheRunningRequest ==
    [][/\ Len(logData') > Len(logData) /\ request'.op = "save"
          => LET entry == logData'[Len(logData')]
                 u == request'.user
             IN IF u = None
                THEN /\ entry.ip_address = None /\ entry.device_info = Absent
                     /\ entry.user = None /\ entry.employee = None
                ELSE /\ entry.ip_address = META(u).REMOTE_ADDR
                     /\ entry.device_info # Absent
                     /\ entry.device_info[1] <= DeviceInfoMax
                     /\ entry.device_info[1] =
                           IF META(u).HTTP_USER_AGENT > DeviceInfoMax
                           THEN DeviceInfoMax ELSE META(u).HTTP_USER_AGENT
                     /\ entry.user = u /\ entry.employee = LinkedEmployee(u)
       /\ thread_locals' = None]_vars


\* C27: a work order that a Stop request has just completed has actual_start
\* and actual_end set, with actual_start no later than actual_end.
C27_CompletedHasStartAndEnd ==
    [][\A id \in WOIds :
          (Handled("stop", id) /\ workOrders'[id].status = "completed")
          => /\ workOrders'[id].actual_start # Absent
             /\ workOrders'[id].actual_end # Absent
             /\ workOrders'[id].actual_start[1] <= workOrders'[id].actual_end[1]]_vars

\* The ProductionLog rows of work order `id`, as indexes into `logs`.
LogsOf(logs, id) == {i \in 1..Len(logs) : logs[i].work_order = id}

LastAction(logs, id) ==
    logs[CHOOSE i \in LogsOf(logs, id) : \A j \in LogsOf(logs, id) : j <= i].action_type

\* C28: after every transition request on a work order, handled one at a
\* time, the action of the work order's latest ProductionLog row agrees with
\* its status: start or resume with in_progress, pause with paused, stop with
\* completed.
C28_LatestLogAgreesWithStatus ==
    [][\A id \in WOIds :
          (request'.op \in Transitions /\ Handled(request'.op, id))
          => /\ LogsOf(productionLogs', id) # {}
             /\ TargetStatus[LastAction(productionLogs', id)] = workOrders'[id].status]_vars

\* A Resume request has just been handled on a work order that was started
\* and paused before.
C28_Witness ==
    /\ request.op = "resume" /\ response = "redirect"
    /\ request.id \in DOMAIN workOrders
    /\ workOrders[request.id].status = "in_progress"
    /\ \E i \in LogsOf(productionLogs, request.id) :
          productionLogs[i].action_type = "pause"
    /\ LastAction(productionLogs, request.id) = "resume"


\* C29: with transition requests running at once on one work order, the save
\* of a request never puts actual_end or actual_start back to what the
\* request had read: only a Stop changes a stored actual_end, only a Start a
\* stored actual_start.
C29_NoLostTimestamp ==
    [][\A id \in WOIds :
          (/\ request'.op \in Transitions
           /\ request'.id = id
           /\ id \in DOMAIN workOrders)
          => /\ request'.op # "stop"
                => workOrders'[id].actual_end = workOrders[id].actual_end
             /\ request'.op # "start"
                => workOrders'[id].actual_start = workOrders[id].actual_start]_vars


\* C30: a transition is all-or-nothing: whenever a transition request changes
\* the stored work order, also when the request then fails, the same step
\* appends the ProductionLog row of that work order and action.
C30_TransitionAllOrNothing ==
    [][\A id \in WOIds :
          (/\ request'.op \in Transitions
           /\ Handled(request'.op, id)
           /\ workOrders'[id] # workOrders[id])
          => /\ Len(productionLogs') = Len(productionLogs) + 1
             /\ productionLogs'[Len(productionLogs')].work_order = id
             /\ productionLogs'[Len(productionLogs')].action_type = request'.op]_vars

====
